---- MODULE Spec2Model ----
\* A model of the clinical finding -> differential diagnosis pipeline of
\* services/diagnostic_engine.py (class DiagnosticEngine).
\*
\* Python str values that the engine lower-cases, splits or searches are
\* sequences of one-character strings, so that str.lower, str.split,
\* " ".join and the `in` substring test are computed character by character.
\* Python floats with two decimals are integers counting hundredths
\* (0.8 is 80); Optional[T] is a sequence of length at most one.
EXTENDS Integers, Sequences, FiniteSets, TLC

\* ---------------------------------------------------------------------
\* Bounds of the explored inputs
\* ---------------------------------------------------------------------
\* longest diagnoses list of a PatientData handed to the FHIR processor
MaxDiagnoses == 2
\* longest bundle "entry" list drawn from every sample resource
MaxEntries == 2
\* longest bundle "entry" list drawn from the finding-producing core samples
MaxCoreEntries == 5
\* longest radiology_analysis list
MaxAnalyses == 2

\* ---------------------------------------------------------------------
\* Python built-ins
\* ---------------------------------------------------------------------
None == <<>>
Some(x) == <<x>>
EmptyDict == <<>>

\* dict.get(key, default)
Get(d, key, default) == IF key \in DOMAIN d THEN d[key] ELSE default

Elems(s) == {s[i] : i \in 1..Len(s)}

Min(a, b) == IF a < b THEN a ELSE b

UpperCase == <<"A","B","C","D","E","F","G","H","I","J","K","L","M","N","O","P","Q","R","S","T","U","V","W","X","Y","Z">>
LowerCase == <<"a","b","c","d","e","f","g","h","i","j","k","l","m","n","o","p","q","r","s","t","u","v","w","x","y","z">>
Whitespace == {" "}

\* the lower-case letter of every upper-case letter
LowerOf ==
    [c \in Elems(UpperCase) |->
        LowerCase[CHOOSE i \in 1..Len(UpperCase) : UpperCase[i] = c]]

lower_char(c) == IF c \in DOMAIN LowerOf THEN LowerOf[c] ELSE c

\* str.lower()
lower(s) == [i \in 1..Len(s) |-> lower_char(s[i])]

\* `p in s` for two str: p occurs in s as a contiguous run of characters
str_in(p, s) ==
    \E i \in 0..(Len(s) - Len(p)) : \A j \in 1..Len(p) : s[i + j] = p[j]

RECURSIVE split_from(_, _, _)
split_from(s, i, cur) ==
    IF i > Len(s)
    THEN IF cur = <<>> THEN <<>> ELSE <<cur>>
    ELSE IF s[i] \in Whitespace
         THEN IF cur = <<>>
              THEN split_from(s, i + 1, <<>>)
              ELSE <<cur>> \o split_from(s, i + 1, <<>>)
         ELSE split_from(s, i + 1, Append(cur, s[i]))

\* str.split(): the maximal runs of non-whitespace characters
split(s) == split_from(s, 1, <<>>)

RECURSIVE join(_, _)
\* sep.join(parts)
join(sep, parts) ==
    IF parts = <<>> THEN <<>>
    ELSE IF Len(parts) = 1 THEN parts[1]
    ELSE parts[1] \o sep \o join(sep, Tail(parts))

\* ---------------------------------------------------------------------
\* The engine's static tables (dicts, in insertion order)
\* ---------------------------------------------------------------------
load_icd10_codes == <<
    [code |-> <<"I","2","5",".","9">>, name |-> <<"C","h","r","o","n","i","c"," ","i","s","c","h","e","m","i","c"," ","h","e","a","r","t"," ","d","i","s","e","a","s","e",","," ","u","n","s","p","e","c","i","f","i","e","d">>, category |-> "cardiovascular"],
    [code |-> <<"J","4","4",".","1">>, name |-> <<"C","h","r","o","n","i","c"," ","o","b","s","t","r","u","c","t","i","v","e"," ","p","u","l","m","o","n","a","r","y"," ","d","i","s","e","a","s","e"," ","w","i","t","h"," ","a","c","u","t","e"," ","e","x","a","c","e","r","b","a","t","i","o","n">>, category |-> "respiratory"],
    [code |-> <<"M","7","9",".","3">>, name |-> <<"P","a","n","n","i","c","u","l","i","t","i","s",","," ","u","n","s","p","e","c","i","f","i","e","d">>, category |-> "musculoskeletal"],
    [code |-> <<"R","5","0",".","9">>, name |-> <<"F","e","v","e","r",","," ","u","n","s","p","e","c","i","f","i","e","d">>, category |-> "symptoms"],
    [code |-> <<"Z","0","0",".","0","0">>, name |-> <<"E","n","c","o","u","n","t","e","r"," ","f","o","r"," ","g","e","n","e","r","a","l"," ","a","d","u","l","t"," ","m","e","d","i","c","a","l"," ","e","x","a","m","i","n","a","t","i","o","n"," ","w","i","t","h","o","u","t"," ","a","b","n","o","r","m","a","l"," ","f","i","n","d","i","n","g","s">>, category |-> "examination"],
    [code |-> <<"K","2","1",".","9">>, name |-> <<"G","a","s","t","r","o","-","e","s","o","p","h","a","g","e","a","l"," ","r","e","f","l","u","x"," ","d","i","s","e","a","s","e"," ","w","i","t","h","o","u","t"," ","e","s","o","p","h","a","g","i","t","i","s">>, category |-> "digestive"],
    [code |-> <<"F","3","2",".","9">>, name |-> <<"M","a","j","o","r"," ","d","e","p","r","e","s","s","i","v","e"," ","d","i","s","o","r","d","e","r",","," ","s","i","n","g","l","e"," ","e","p","i","s","o","d","e",","," ","u","n","s","p","e","c","i","f","i","e","d">>, category |-> "mental"],
    [code |-> <<"E","1","1",".","9">>, name |-> <<"T","y","p","e"," ","2"," ","d","i","a","b","e","t","e","s"," ","m","e","l","l","i","t","u","s"," ","w","i","t","h","o","u","t"," ","c","o","m","p","l","i","c","a","t","i","o","n","s">>, category |-> "endocrine"],
    [code |-> <<"N","1","8",".","6">>, name |-> <<"E","n","d"," ","s","t","a","g","e"," ","r","e","n","a","l"," ","d","i","s","e","a","s","e">>, category |-> "genitourinary"],
    [code |-> <<"C","7","8",".","0","0">>, name |-> <<"S","e","c","o","n","d","a","r","y"," ","m","a","l","i","g","n","a","n","t"," ","n","e","o","p","l","a","s","m"," ","o","f"," ","u","n","s","p","e","c","i","f","i","e","d"," ","l","u","n","g">>, category |-> "neoplasms"] >>

load_snomed_codes == <<
    [code |-> <<"4","4","0","5","4","0","0","6">>, name |-> <<"D","i","a","b","e","t","e","s"," ","m","e","l","l","i","t","u","s">>, category |-> "disorder"],
    [code |-> <<"1","9","5","9","6","7","0","0","1">>, name |-> <<"A","s","t","h","m","a">>, category |-> "disorder"],
    [code |-> <<"3","8","3","4","1","0","0","3">>, name |-> <<"H","y","p","e","r","t","e","n","s","i","v","e"," ","d","i","s","o","r","d","e","r",","," ","s","y","s","t","e","m","i","c"," ","a","r","t","e","r","i","a","l">>, category |-> "disorder"],
    [code |-> <<"2","2","2","5","3","0","0","0">>, name |-> <<"P","a","i","n">>, category |-> "symptom"],
    [code |-> <<"3","8","6","0","5","3","0","0","0">>, name |-> <<"D","e","c","i","s","i","o","n"," ","t","o"," ","a","d","m","i","t">>, category |-> "procedure"],
    [code |-> <<"2","2","5","3","5","8","0","0","3">>, name |-> <<"C","h","e","s","t"," ","p","a","i","n">>, category |-> "symptom"],
    [code |-> <<"2","6","7","0","3","6","0","0","7">>, name |-> <<"D","y","s","p","n","e","a">>, category |-> "symptom"],
    [code |-> <<"2","5","0","6","4","0","0","2">>, name |-> <<"H","e","a","d","a","c","h","e">>, category |-> "symptom"],
    [code |-> <<"1","6","1","8","9","1","0","0","5">>, name |-> <<"H","i","s","t","o","r","y"," ","o","f"," ","m","y","o","c","a","r","d","i","a","l"," ","i","n","f","a","r","c","t","i","o","n">>, category |-> "history"],
    [code |-> <<"2","7","1","7","3","7","0","0","0">>, name |-> <<"A","b","n","o","r","m","a","l"," ","c","h","e","s","t"," ","X","-","r","a","y">>, category |-> "finding"] >>

load_diagnostic_rules == <<
    [rule_name |-> "chest_pain", rules |-> <<
        [conditions |-> << <<"c","h","e","s","t"," ","p","a","i","n">>, <<"c","h","e","s","t"," ","d","i","s","c","o","m","f","o","r","t">> >>,
         differential |-> << <<"I","2","5",".","9">>, <<"J","4","4",".","1">>, <<"R","5","0",".","9">> >>,
         urgency |-> "high",
         required_tests |-> << "ECG", "chest X-ray", "troponin" >>] >>],
    [rule_name |-> "shortness_breath", rules |-> <<
        [conditions |-> << <<"d","y","s","p","n","e","a">>, <<"s","h","o","r","t","n","e","s","s"," ","o","f"," ","b","r","e","a","t","h">>, <<"b","r","e","a","t","h","i","n","g"," ","d","i","f","f","i","c","u","l","t","y">> >>,
         differential |-> << <<"J","4","4",".","1">>, <<"I","2","5",".","9">>, <<"C","7","8",".","0","0">> >>,
         urgency |-> "high",
         required_tests |-> << "chest X-ray", "ABG", "pulse oximetry" >>] >>],
    [rule_name |-> "fever", rules |-> <<
        [conditions |-> << <<"f","e","v","e","r">>, <<"e","l","e","v","a","t","e","d"," ","t","e","m","p","e","r","a","t","u","r","e">>, <<"p","y","r","e","x","i","a">> >>,
         differential |-> << <<"R","5","0",".","9">>, <<"J","4","4",".","1">>, <<"K","2","1",".","9">> >>,
         urgency |-> "medium",
         required_tests |-> << "blood culture", "CBC", "chest X-ray" >>] >>] >>

\* DiagnosticEngine.__init__
icd10_codes == load_icd10_codes
snomed_codes == load_snomed_codes
diagnostic_rules == load_diagnostic_rules

\* `code in table` and table[code] for a dict keyed by code
HasKey(table, code) == \E i \in 1..Len(table) : table[i].code = code
Lookup(table, code) == table[CHOOSE i \in 1..Len(table) : table[i].code = code]

\* ---------------------------------------------------------------------
\* Code lookup
\* ---------------------------------------------------------------------
\* the lookup matching the whole lower-cased name instead of its tokens
find_related_codes_phrase(table, keywords, text) ==
    LET text_lower == lower(text)
        hit(info) == str_in(lower(info.name), text_lower)
        hits == SelectSeq(table, hit)
    IN  [i \in 1..Len(hits) |-> hits[i].code]

\* the codes, in table order, of the entries one of whose lower-cased name
\* tokens occurs in the lower-cased text
find_related_codes(table, keywords, text) ==
    LET text_lower == lower(text)
        hit(info) == \E keyword \in keywords[info.code] : str_in(keyword, text_lower)
        hits == SelectSeq(table, hit)
    IN  [i \in 1..Len(hits) |-> hits[i].code]

\* info["name"].lower().split() of every table entry, by code
name_keywords(table) ==
    [code \in {table[i].code : i \in 1..Len(table)} |->
        Elems(split(lower(Lookup(table, code).name)))]

icd10_keywords == name_keywords(icd10_codes)
snomed_keywords == name_keywords(snomed_codes)

find_related_icd10_codes(text) == find_related_codes(icd10_codes, icd10_keywords, text)

find_related_snomed_codes(text) == find_related_codes(snomed_codes, snomed_keywords, text)

\* ---------------------------------------------------------------------
\* Finding extraction
\* ---------------------------------------------------------------------
SYMPTOM == "symptom"
SIGN == "sign"
IMAGING == "imaging"

LOW == "low"
MEDIUM == "medium"
HIGH == "high"
CRITICAL == "critical"

\* a patient_data that is no dict is tagged with the name of its Python type
py_type(pd) == Get(pd, "py_type", "dict")
is_mapping(pd) == py_type(pd) = "dict"

\* whether `"entry" in patient_data` is defined: None and numbers are no containers
supports_in(pd) == py_type(pd) \in {"dict", "list", "str"}

\* "entry" in patient_data: a key of a dict, an element of a list, a substring of a str
contains_entry(pd) ==
    IF py_type(pd) = "dict" THEN "entry" \in DOMAIN pd
    ELSE IF py_type(pd) = "list" THEN <<"e","n","t","r","y">> \in Elems(pd.value)
    ELSE str_in(<<"e","n","t","r","y">>, pd.value)

RECURSIVE extract_entries_by_lookup(_, _)
\* the loop that looks the ICD-10 codes of a Condition up by its display
\* name instead of taking the code of its coding
extract_entries_by_lookup(entries, findings) ==
    IF entries = <<>> THEN [raised |-> None, findings |-> findings]
    ELSE
      LET entry == Head(entries)
          resource == Get(entry, "resource", EmptyDict)
          resourceType == Get(resource, "resourceType", "None")
      IN  IF resourceType = "Observation"
          THEN IF "valueString" \in DOMAIN resource
               THEN extract_entries_by_lookup(Tail(entries), Append(findings,
                      [finding_type |-> SYMPTOM,
                       description |-> resource["valueString"],
                       confidence |-> 80,
                       source |-> "anamnesis",
                       icd10_codes |-> find_related_icd10_codes(resource["valueString"]),
                       snomed_codes |-> find_related_snomed_codes(resource["valueString"])]))
               ELSE extract_entries_by_lookup(Tail(entries), findings)
          ELSE IF resourceType = "Condition"
          THEN LET coding == Get(Get(resource, "code", EmptyDict), "coding", <<EmptyDict>>)
               IN  IF Len(coding) = 0
                   THEN [raised |-> Some("IndexError"), findings |-> findings]
                   ELSE
                     LET code_info == coding[1]
                     IN  extract_entries_by_lookup(Tail(entries), Append(findings,
                           [finding_type |-> SIGN,
                            description |-> Get(code_info, "display", <<"U","n","k","n","o","w","n"," ","c","o","n","d","i","t","i","o","n">>),
                            confidence |-> 90,
                            source |-> "existing_diagnosis",
                            icd10_codes |-> find_related_icd10_codes(Get(code_info, "display", <<>>)),
                            snomed_codes |-> find_related_snomed_codes(Get(code_info, "display", <<>>))]))
          ELSE extract_entries_by_lookup(Tail(entries), findings)

RECURSIVE extract_entries(_, _)
\* the loop over patient_data["entry"]; it raises the IndexError of `[...][0]`
\* on an empty "coding" list
extract_entries(entries, findings) ==
    IF entries = <<>> THEN [raised |-> None, findings |-> findings]
    ELSE
      LET entry == Head(entries)
          resource == Get(entry, "resource", EmptyDict)
          resourceType == Get(resource, "resourceType", "None")
      IN  IF resourceType = "Observation"
          THEN IF "valueString" \in DOMAIN resource
               THEN extract_entries(Tail(entries), Append(findings,
                      [finding_type |-> SYMPTOM,
                       description |-> resource["valueString"],
                       confidence |-> 80,
                       source |-> "anamnesis",
                       icd10_codes |-> find_related_icd10_codes(resource["valueString"]),
                       snomed_codes |-> find_related_snomed_codes(resource["valueString"])]))
               ELSE extract_entries(Tail(entries), findings)
          ELSE IF resourceType = "Condition"
          THEN LET coding == Get(Get(resource, "code", EmptyDict), "coding", <<EmptyDict>>)
               IN  IF Len(coding) = 0
                   THEN [raised |-> Some("IndexError"), findings |-> findings]
                   ELSE
                     LET code_info == coding[1]
                     IN  extract_entries(Tail(entries), Append(findings,
                           [finding_type |-> SIGN,
                            description |-> Get(code_info, "display", <<"U","n","k","n","o","w","n"," ","c","o","n","d","i","t","i","o","n">>),
                            confidence |-> 90,
                            source |-> "existing_diagnosis",
                            icd10_codes |-> << Get(code_info, "code", <<>>) >>,
                            snomed_codes |-> find_related_snomed_codes(Get(code_info, "display", <<>>))]))
          ELSE extract_entries(Tail(entries), findings)

\* `"entry" in patient_data` raises TypeError on None and on a number, and
\* patient_data["entry"] raises TypeError on a list and on a str
extract_clinical_findings(pd) ==
    IF ~supports_in(pd) THEN [raised |-> Some("TypeError"), findings |-> <<>>]
    ELSE IF ~contains_entry(pd) THEN [raised |-> None, findings |-> <<>>]
    ELSE IF ~is_mapping(pd) THEN [raised |-> Some("TypeError"), findings |-> <<>>]
    ELSE extract_entries(pd["entry"], <<>>)

RECURSIVE extract_analysis_findings_default(_, _, _)
\* the imaging findings all given the 0.7 default, whatever the scores
extract_analysis_findings_default(analysis, texts, findings) ==
    IF texts = <<>> THEN findings
    ELSE LET finding_text == Head(texts)
         IN  extract_analysis_findings_default(analysis, Tail(texts), Append(findings,
               [finding_type |-> IMAGING,
                description |-> finding_text,
                confidence |-> 70,
                source |-> "radiology_" \o analysis.process_name,
                icd10_codes |-> find_related_icd10_codes(finding_text),
                snomed_codes |-> find_related_snomed_codes(finding_text)]))

RECURSIVE extract_analysis_findings(_, _, _)
extract_analysis_findings(analysis, texts, findings) ==
    IF texts = <<>> THEN findings
    ELSE LET finding_text == Head(texts)
         IN  extract_analysis_findings(analysis, Tail(texts), Append(findings,
               [finding_type |-> IMAGING,
                description |-> finding_text,
                confidence |-> Get(analysis.confidence_scores, finding_text, 70),
                source |-> "radiology_" \o analysis.process_name,
                icd10_codes |-> find_related_icd10_codes(finding_text),
                snomed_codes |-> find_related_snomed_codes(finding_text)]))

RECURSIVE extract_radiology_findings_from(_, _)
extract_radiology_findings_from(analyses, findings) ==
    IF analyses = <<>> THEN findings
    ELSE extract_radiology_findings_from(Tail(analyses),
           extract_analysis_findings(Head(analyses), Head(analyses).findings, findings))

extract_radiology_findings(ra) == extract_radiology_findings_from(ra, <<>>)

\* ---------------------------------------------------------------------
\* Rule matching, scoring and ranking
\* ---------------------------------------------------------------------
\* [f.description.lower() for f in clinical_findings]
finding_texts(findings) == [i \in 1..Len(findings) |-> lower(findings[i].description)]

\* the number of findings whose icd10_codes list holds the code
matching_findings(findings, icd10_code) ==
    Cardinality({i \in 1..Len(findings) : icd10_code \in Elems(findings[i].icd10_codes)})

\* the confidence without its 0.9 cap
calculate_diagnosis_confidence_uncapped(findings, icd10_code) ==
    IF findings = <<>> THEN 50
    ELSE 50 + matching_findings(findings, icd10_code) * 10

calculate_diagnosis_confidence(findings, icd10_code) ==
    IF findings = <<>> THEN 50
    ELSE Min(90, 50 + matching_findings(findings, icd10_code) * 10)

calculate_diagnosis_probability(findings, icd10_code) ==
    calculate_diagnosis_confidence(findings, icd10_code)

\* the evidence built from every finding, matching or not
generate_evidence_unfiltered(findings, icd10_code) ==
    [i \in 1..Len(findings) |->
        [evidence_type |-> "clinical_finding",
         description |-> findings[i].description,
         strength |-> findings[i].confidence,
         source |-> findings[i].source]]

generate_evidence(findings, icd10_code) ==
    LET supports(f) == icd10_code \in Elems(f.icd10_codes)
        matching == SelectSeq(findings, supports)
    IN  [i \in 1..Len(matching) |->
            [evidence_type |-> "clinical_finding",
             description |-> matching[i].description,
             strength |-> matching[i].confidence,
             source |-> matching[i].source]]

\* a rule matched against each finding text on its own instead of the blob
rule_fires_per_finding(rule, findings) ==
    \E condition \in Elems(rule.conditions) :
        \E text \in Elems(finding_texts(findings)) : str_in(condition, text)

\* any(condition in " ".join(finding_texts) for condition in rule["conditions"])
rule_fires(rule, findings) ==
    LET blob == join(<<" ">>, finding_texts(findings))
    IN  \E condition \in Elems(rule.conditions) : str_in(condition, blob)

RECURSIVE add_codes_name_by_position(_, _, _)
\* the rule loop reading the name at the list position of the new diagnosis
\* instead of under its code
add_codes_name_by_position(codes, findings, diagnoses) ==
    IF codes = <<>> THEN diagnoses
    ELSE LET icd10_code == Head(codes)
         IN  IF HasKey(icd10_codes, icd10_code)
             THEN add_codes_name_by_position(Tail(codes), findings, Append(diagnoses,
                    [code |-> icd10_code,
                     name |-> icd10_codes[Len(diagnoses) + 1].name,
                     confidence |-> calculate_diagnosis_confidence(findings, icd10_code),
                     evidence |-> generate_evidence(findings, icd10_code),
                     probability |-> calculate_diagnosis_probability(findings, icd10_code),
                     differential_rank |-> Len(diagnoses) + 1]))
             ELSE add_codes_name_by_position(Tail(codes), findings, diagnoses)

RECURSIVE add_codes(_, _, _)
\* for icd10_code in rule["differential"]: ... differential_diagnoses.append(diagnosis)
add_codes(codes, findings, diagnoses) ==
    IF codes = <<>> THEN diagnoses
    ELSE LET icd10_code == Head(codes)
         IN  IF HasKey(icd10_codes, icd10_code)
             THEN add_codes(Tail(codes), findings, Append(diagnoses,
                    [code |-> icd10_code,
                     name |-> Lookup(icd10_codes, icd10_code).name,
                     confidence |-> calculate_diagnosis_confidence(findings, icd10_code),
                     evidence |-> generate_evidence(findings, icd10_code),
                     probability |-> calculate_diagnosis_probability(findings, icd10_code),
                     differential_rank |-> Len(diagnoses) + 1]))
             ELSE add_codes(Tail(codes), findings, diagnoses)

RECURSIVE add_rules(_, _, _)
\* for rule in rules: if any(...): ...
add_rules(rules, findings, diagnoses) ==
    IF rules = <<>> THEN diagnoses
    ELSE add_rules(Tail(rules), findings,
           IF rule_fires(Head(rules), findings)
           THEN add_codes(Head(rules).differential, findings, diagnoses)
           ELSE diagnoses)

RECURSIVE add_rule_groups(_, _, _)
\* for rule_name, rules in self.diagnostic_rules.items(): ...
add_rule_groups(groups, findings, diagnoses) ==
    IF groups = <<>> THEN diagnoses
    ELSE add_rule_groups(Tail(groups), findings,
           add_rules(Head(groups).rules, findings, diagnoses))

\* the list built by the rule loop, before it is sorted and cut
candidate_diagnoses(findings) == add_rule_groups(diagnostic_rules, findings, <<>>)

\* the sort key (x.confidence + x.probability) / 2, counted in half hundredths
sort_key(d) == d.confidence + d.probability

RECURSIVE insert_desc_unstable(_, _)
\* a descending insertion that puts an element ahead of its equals
insert_desc_unstable(d, sorted) ==
    IF sorted = <<>> THEN <<d>>
    ELSE IF sort_key(Head(sorted)) > sort_key(d)
         THEN <<Head(sorted)>> \o insert_desc_unstable(d, Tail(sorted))
         ELSE <<d>> \o sorted

RECURSIVE insert_desc(_, _)
\* list.sort(key=..., reverse=True) is stable: an element goes behind every
\* earlier element whose key is not smaller
insert_desc(d, sorted) ==
    IF sorted = <<>> THEN <<d>>
    ELSE IF sort_key(Head(sorted)) >= sort_key(d)
         THEN <<Head(sorted)>> \o insert_desc(d, Tail(sorted))
         ELSE <<d>> \o sorted

RECURSIVE sort_reverse_into(_, _)
sort_reverse_into(diagnoses, sorted) ==
    IF diagnoses = <<>> THEN sorted
    ELSE sort_reverse_into(Tail(diagnoses), insert_desc(Head(diagnoses), sorted))

\* differential_diagnoses.sort(key=lambda x: ..., reverse=True)
sort_reverse(diagnoses) == sort_reverse_into(diagnoses, <<>>)

\* the number of diagnoses kept by differential_diagnoses[:5]
TopN == 5

\* lst[:n]
Take(lst, n) == SubSeq(lst, 1, Min(n, Len(lst)))

\* the sorted list returned without the [:5] cut
generate_differential_diagnoses_uncut(findings) ==
    sort_reverse(candidate_diagnoses(findings))

generate_differential_diagnoses(findings) ==
    Take(sort_reverse(candidate_diagnoses(findings)), TopN)

\* the primary diagnosis taken from the wrong end of the list
determine_primary_diagnosis_last(diagnoses) ==
    IF diagnoses = <<>> THEN None ELSE Some(diagnoses[Len(diagnoses)])

determine_primary_diagnosis(diagnoses) ==
    IF diagnoses = <<>> THEN None ELSE Some(diagnoses[1])

\* ---------------------------------------------------------------------
\* Aggregate derivation
\* ---------------------------------------------------------------------
RECURSIVE GCD(_, _)
GCD(a, b) == IF b = 0 THEN a ELSE GCD(b, a % b)

\* an exact quotient num/den of hundredths, in lowest terms
Ratio(num, den) ==
    LET g == GCD(num, den) IN [num |-> num \div g, den |-> den \div g]

RECURSIVE sum_confidence(_)
\* sum(x.confidence for x in items)
sum_confidence(items) ==
    IF items = <<>> THEN 0 ELSE Head(items).confidence + sum_confidence(Tail(items))

\* the score with the two weights exchanged
calculate_confidence_score_swapped(findings, diagnoses) ==
    IF findings = <<>> /\ diagnoses = <<>> THEN Ratio(0, 1)
    ELSE
      LET f_num == IF findings # <<>> THEN sum_confidence(findings) ELSE 0
          f_den == IF findings # <<>> THEN Len(findings) ELSE 1
          d_num == IF diagnoses # <<>> THEN sum_confidence(diagnoses) ELSE 0
          d_den == IF diagnoses # <<>> THEN Len(diagnoses) ELSE 1
      IN  Ratio(f_num * 4 * d_den + d_num * 6 * f_den, 10 * f_den * d_den)

\* findings_score * 0.6 + diagnoses_score * 0.4, each score a mean or 0.0
calculate_confidence_score(findings, diagnoses) ==
    IF findings = <<>> /\ diagnoses = <<>> THEN Ratio(0, 1)
    ELSE
      LET f_num == IF findings # <<>> THEN sum_confidence(findings) ELSE 0
          f_den == IF findings # <<>> THEN Len(findings) ELSE 1
          d_num == IF diagnoses # <<>> THEN sum_confidence(diagnoses) ELSE 0
          d_den == IF diagnoses # <<>> THEN Len(diagnoses) ELSE 1
      IN  Ratio(f_num * 6 * d_den + d_num * 4 * f_den, 10 * f_den * d_den)

high_urgency_keywords ==
    << <<"a","c","u","t","e">>, <<"s","e","v","e","r","e">>, <<"c","r","i","t","i","c","a","l">>, <<"e","m","e","r","g","e","n","c","y">>, <<"c","h","e","s","t"," ","p","a","i","n">>, <<"s","h","o","r","t","n","e","s","s"," ","o","f"," ","b","r","e","a","t","h">> >>
medium_urgency_keywords == << <<"m","o","d","e","r","a","t","e">>, <<"w","o","r","s","e","n","i","n","g">>, <<"p","e","r","s","i","s","t","e","n","t">> >>

\* the keyword scan on the descriptions as written, not lower-cased
determine_urgency_level_case_sensitive(findings, diagnoses) ==
    LET all_text == join(<<" ">>, [i \in 1..Len(findings) |-> findings[i].description])
    IN  IF \E keyword \in Elems(high_urgency_keywords) : str_in(keyword, all_text)
        THEN HIGH
        ELSE IF \E keyword \in Elems(medium_urgency_keywords) : str_in(keyword, all_text)
        THEN MEDIUM
        ELSE LOW

\* the urgency read from the "urgency" hint of the rules that fire
determine_urgency_level_by_rule_hint(findings, diagnoses) ==
    LET hints == {diagnostic_rules[g].rules[r].urgency :
                     <<g, r>> \in {<<h, s>> \in (1..Len(diagnostic_rules)) \X {1} :
                         rule_fires(diagnostic_rules[h].rules[s], findings)}}
    IN  IF "high" \in hints THEN HIGH
        ELSE IF "medium" \in hints THEN MEDIUM
        ELSE LOW

\* the keyword scan that tests the medium keywords before the high ones
determine_urgency_level_medium_first(findings, diagnoses) ==
    LET all_text == join(<<" ">>, finding_texts(findings))
    IN  IF \E keyword \in Elems(medium_urgency_keywords) : str_in(keyword, all_text)
        THEN MEDIUM
        ELSE IF \E keyword \in Elems(high_urgency_keywords) : str_in(keyword, all_text)
        THEN HIGH
        ELSE LOW

determine_urgency_level(findings, diagnoses) ==
    LET all_text == join(<<" ">>, finding_texts(findings))
    IN  IF \E keyword \in Elems(high_urgency_keywords) : str_in(keyword, all_text)
        THEN HIGH
        ELSE IF \E keyword \in Elems(medium_urgency_keywords) : str_in(keyword, all_text)
        THEN MEDIUM
        ELSE LOW

Digits == <<"0","1","2","3","4","5","6","7","8","9">>
is_digit(c) == \E i \in 1..Len(Digits) : Digits[i] = c
digit_value(c) == (CHOOSE i \in 1..Len(Digits) : Digits[i] = c) - 1
number(s, from, to) ==
    LET RECURSIVE value(_)
        value(i) == IF i < from THEN 0 ELSE value(i - 1) * 10 + digit_value(s[i])
    IN  value(to)

is_leap(year) == (year % 4 = 0 /\ year % 100 # 0) \/ year % 400 = 0
days_in_month(year, month) ==
    IF month = 2 THEN (IF is_leap(year) THEN 29 ELSE 28)
    ELSE IF month \in {4, 6, 9, 11} THEN 30 ELSE 31

\* datetime.fromisoformat on a date-only string YYYY-MM-DD; None stands for
\* the ValueError raised on any other sample string
fromisoformat(s) ==
    IF /\ Len(s) = 10
       /\ s[5] = "-" /\ s[8] = "-"
       /\ \A i \in {1, 2, 3, 4, 6, 7, 9, 10} : is_digit(s[i])
    THEN LET year == number(s, 1, 4)
             month == number(s, 6, 7)
             day == number(s, 9, 10)
         IN  IF year >= 1 /\ month \in 1..12 /\ day \in 1..days_in_month(year, month)
             THEN Some([year |-> year, month |-> month, day |-> day])
             ELSE None
    ELSE None

\* birth_date.replace('Z', '+00:00')
replace_Z(s) ==
    LET RECURSIVE from(_)
        from(i) == IF i > Len(s) THEN <<>>
                   ELSE (IF s[i] = "Z" THEN <<"+","0","0",":","0","0">> ELSE <<s[i]>>) \o from(i + 1)
    IN  from(1)

\* (a_month, a_day) < (b_month, b_day)
tuple_less(a_month, a_day, b_month, b_day) ==
    a_month < b_month \/ (a_month = b_month /\ a_day < b_day)

calculate_age(birth_date, today) ==
    LET parsed == fromisoformat(replace_Z(birth_date))
    IN  IF parsed = None THEN 0
        ELSE LET birth == parsed[1]
             IN  today.year - birth.year
                 - (IF tuple_less(today.month, today.day, birth.month, birth.day)
                    THEN 1 ELSE 0)

RECURSIVE age_risk_factors(_, _, _)
age_risk_factors(entries, today, risk) ==
    IF entries = <<>> THEN risk
    ELSE
      LET resource == Get(Head(entries), "resource", EmptyDict)
          birth_date == Get(resource, "birthDate", None)
          age == calculate_age(birth_date, today)
      IN  age_risk_factors(Tail(entries), today,
            IF Get(resource, "resourceType", "None") = "Patient" /\ birth_date # <<>>
            THEN IF age > 65 THEN Append(risk, "Advanced age (>65 years)")
                 ELSE IF age > 50 THEN Append(risk, "Middle age (50-65 years)")
                 ELSE risk
            ELSE risk)

RECURSIVE condition_risk_factors(_, _)
condition_risk_factors(findings, risk) ==
    IF findings = <<>> THEN risk
    ELSE
      LET text == lower(Head(findings).description)
      IN  condition_risk_factors(Tail(findings),
            IF str_in(<<"d","i","a","b","e","t","e","s">>, text) THEN Append(risk, "Diabetes mellitus")
            ELSE IF str_in(<<"h","y","p","e","r","t","e","n","s","i","o","n">>, text) THEN Append(risk, "Hypertension")
            ELSE IF str_in(<<"s","m","o","k","i","n","g">>, text) THEN Append(risk, "Smoking history")
            ELSE risk)

identify_risk_factors(pd, findings, today) ==
    condition_risk_factors(findings,
        IF contains_entry(pd) THEN age_risk_factors(pd["entry"], today, <<>>) ELSE <<>>)

\* whether the call reaches datetime.now(): some Patient resource has a
\* birthDate that fromisoformat accepts
reads_clock(pd) ==
    /\ contains_entry(pd)
    /\ \E e \in Elems(pd["entry"]) :
          LET resource == Get(e, "resource", EmptyDict)
              birth_date == Get(resource, "birthDate", None)
          IN  /\ Get(resource, "resourceType", "None") = "Patient"
              /\ birth_date # <<>>
              /\ fromisoformat(replace_Z(birth_date)) # None

\* the follow-up policy without its last branch
determine_follow_up_always(diagnoses, urgency) ==
    IF urgency = HIGH THEN <<TRUE, Some("24-48 hours")>>
    ELSE IF urgency = MEDIUM THEN <<TRUE, Some("1-2 weeks")>>
    ELSE <<TRUE, Some("2-4 weeks")>>

\* the follow-up policy that ignores the differential list at LOW urgency
determine_follow_up_by_urgency(diagnoses, urgency) ==
    IF urgency = HIGH THEN <<TRUE, Some("24-48 hours")>>
    ELSE IF urgency = MEDIUM THEN <<TRUE, Some("1-2 weeks")>>
    ELSE <<FALSE, None>>

determine_follow_up(diagnoses, urgency) ==
    IF urgency = HIGH THEN <<TRUE, Some("24-48 hours")>>
    ELSE IF urgency = MEDIUM THEN <<TRUE, Some("1-2 weeks")>>
    ELSE IF diagnoses # <<>> THEN <<TRUE, Some("2-4 weeks")>>
    ELSE <<FALSE, None>>

generate_treatment_recommendations(diagnoses, findings) ==
    (IF diagnoses # <<>>
     THEN << <<"C","o","n","s","i","d","e","r"," ","t","r","e","a","t","m","e","n","t"," ","f","o","r"," ">> \o diagnoses[1].name,
             <<"M","o","n","i","t","o","r"," ","r","e","s","p","o","n","s","e"," ","t","o"," ","t","r","e","a","t","m","e","n","t">>,
             <<"A","d","j","u","s","t"," ","t","h","e","r","a","p","y"," ","b","a","s","e","d"," ","o","n"," ","c","l","i","n","i","c","a","l"," ","r","e","s","p","o","n","s","e">> >>
     ELSE <<>>)
    \o << <<"P","a","t","i","e","n","t"," ","e","d","u","c","a","t","i","o","n"," ","o","n"," ","c","o","n","d","i","t","i","o","n"," ","a","n","d"," ","m","a","n","a","g","e","m","e","n","t">>,
          <<"L","i","f","e","s","t","y","l","e"," ","m","o","d","i","f","i","c","a","t","i","o","n","s"," ","a","s"," ","a","p","p","r","o","p","r","i","a","t","e">> >>

generate_monitoring_requirements(diagnoses, urgency) ==
    IF urgency = HIGH
    THEN << "Continuous vital signs monitoring", "Frequent clinical assessment",
            "Laboratory monitoring as indicated" >>
    ELSE IF urgency = MEDIUM
    THEN << "Regular vital signs", "Symptom monitoring", "Follow-up laboratory tests" >>
    ELSE << "Routine follow-up", "Symptom monitoring", "Annual screening as appropriate" >>

identify_contraindications(pd, diagnoses) ==
    << "Verify drug allergies before prescribing", "Check for drug interactions" >>

red_flag_keywords ==
    << <<"s","e","v","e","r","e">>, <<"a","c","u","t","e">>, <<"s","u","d","d","e","n">>, <<"w","o","r","s","e","n","i","n","g">>, <<"u","n","a","b","l","e"," ","t","o">>,
       <<"c","h","e","s","t"," ","p","a","i","n">>, <<"s","h","o","r","t","n","e","s","s"," ","o","f"," ","b","r","e","a","t","h">>, <<"l","o","s","s"," ","o","f"," ","c","o","n","s","c","i","o","u","s","n","e","s","s">> >>

\* the red flags with a repeated entry kept once
identify_red_flags_deduplicated(findings, diagnoses) ==
    LET flagged(f) == \E keyword \in Elems(red_flag_keywords) :
                          str_in(keyword, lower(f.description))
        first(i) == flagged(findings[i])
                    /\ \A j \in 1..(i - 1) : findings[j].description # findings[i].description
        RECURSIVE from(_)
        from(i) == IF i > Len(findings) THEN <<>>
                   ELSE (IF first(i) THEN << <<"R","e","d"," ","f","l","a","g",":"," ">> \o findings[i].description >>
                         ELSE <<>>) \o from(i + 1)
    IN  from(1)

identify_red_flags(findings, diagnoses) ==
    LET flagged(f) == \E keyword \in Elems(red_flag_keywords) :
                          str_in(keyword, lower(f.description))
        hits == SelectSeq(findings, flagged)
    IN  [i \in 1..Len(hits) |-> <<"R","e","d"," ","f","l","a","g",":"," ">> \o hits[i].description]

\* ---------------------------------------------------------------------
\* Inputs of generate_assessment
\* ---------------------------------------------------------------------
Observation(text) ==
    [resource |-> [resourceType |-> "Observation", valueString |-> text]]
Condition(code, display) ==
    [resource |-> [resourceType |-> "Condition",
                   code |-> [coding |-> << [code |-> code, display |-> display] >>]]]
PatientResource(birth_date) ==
    [resource |-> [resourceType |-> "Patient", birthDate |-> birth_date]]

\* bundle entries that yield a finding and can fire the rules
CoreEntries == {
    Observation(<<"C","h","e","s","t"," ","p","a","i","n">>),
    Observation(<<"d","y","s","p","n","e","a">>),
    Condition(<<"R","5","0",".","9">>, <<"F","e","v","e","r",","," ","u","n","s","p","e","c","i","f","i","e","d">>),
    Condition(<<"I","2","5",".","9">>, <<"C","h","e","s","t"," ","d","i","s","c","o","m","f","o","r","t">>) }

\* every sample bundle entry
AllEntries == CoreEntries \cup {
    Observation(<<"c","h","e","s","t">>),
    Observation(<<"p","a","i","n">>),
    Observation(<<"f","e","v","e","r">>),
    Observation(<<>>),
    Observation(<<"p","a","t","i","e","n","t"," ","h","a","s"," ","d","i","a","b","e","t","e","s"," ","a","n","d"," ","h","y","p","e","r","t","e","n","s","i","o","n">>),
    Observation(<<"m","o","d","e","r","a","t","e"," ","h","y","p","e","r","t","e","n","s","i","o","n">>),
    Observation(<<"a","c","u","t","e"," ","f","e","v","e","r",","," ","u","n","s","p","e","c","i","f","i","e","d">>),
    [resource |-> [resourceType |-> "Observation"]],
    [resource |-> [resourceType |-> "Condition"]],
    [resource |-> [resourceType |-> "Condition", code |-> [coding |-> <<>>]]],
    PatientResource(<<"1","9","6","0","-","0","6","-","1","5">>),
    [fullUrl |-> "urn:uuid:1"] }

\* the ImagingAnalysis of ClinicalAIEngine._analyze_chest_xray, one whose
\* score keys are the finding texts, and one without findings
RadiologySamples == {
    [process_name |-> "Chest X-ray",
     findings |-> << <<"B","i","l","a","t","e","r","a","l"," ","l","u","n","g"," ","f","i","e","l","d","s"," ","a","p","p","e","a","r"," ","c","l","e","a","r">>,
                     <<"C","a","r","d","i","a","c"," ","s","i","l","h","o","u","e","t","t","e"," ","w","i","t","h","i","n"," ","n","o","r","m","a","l"," ","l","i","m","i","t","s">>,
                     <<"N","o"," ","a","c","u","t","e"," ","p","u","l","m","o","n","a","r","y"," ","a","b","n","o","r","m","a","l","i","t","i","e","s"," ","d","e","t","e","c","t","e","d">> >>,
     confidence_scores |-> (<<"l","u","n","g","_","f","i","e","l","d","s","_","c","l","e","a","r">> :> 85) @@ (<<"c","a","r","d","i","a","c","_","n","o","r","m","a","l">> :> 90)
                           @@ (<<"n","o","_","a","c","u","t","e","_","a","b","n","o","r","m","a","l","i","t","i","e","s">> :> 88)],
    [process_name |-> "CT",
     findings |-> << <<"f","e","v","e","r">>, <<"S","e","v","e","r","e"," ","c","h","e","s","t"," ","p","a","i","n">> >>,
     confidence_scores |-> (<<"S","e","v","e","r","e"," ","c","h","e","s","t"," ","p","a","i","n">> :> 95)],
    [process_name |-> "MRI", findings |-> <<>>, confidence_scores |-> EmptyDict] }

SeqsUpTo(S, n) == UNION {[1..k -> S] : k \in 0..n}

\* ---------------------------------------------------------------------
\* ClinicalAIEngine.analyze_radiology_images: the findings and the
\* confidence_scores of each simulated analysis (the recommendations and the
\* severity of a RadiologyAnalysis are not read by the diagnostic engine)
\* ---------------------------------------------------------------------
analyze_chest_xray ==
    [findings |-> << <<"B","i","l","a","t","e","r","a","l"," ","l","u","n","g"," ","f","i","e","l","d","s"," ","a","p","p","e","a","r"," ","c","l","e","a","r">>,
                     <<"C","a","r","d","i","a","c"," ","s","i","l","h","o","u","e","t","t","e"," ","w","i","t","h","i","n"," ","n","o","r","m","a","l"," ","l","i","m","i","t","s">>,
                     <<"N","o"," ","a","c","u","t","e"," ","p","u","l","m","o","n","a","r","y"," ","a","b","n","o","r","m","a","l","i","t","i","e","s"," ","d","e","t","e","c","t","e","d">> >>,
     confidence_scores |-> (<<"l","u","n","g","_","f","i","e","l","d","s","_","c","l","e","a","r">> :> 85) @@ (<<"c","a","r","d","i","a","c","_","n","o","r","m","a","l">> :> 90)
                           @@ (<<"n","o","_","a","c","u","t","e","_","a","b","n","o","r","m","a","l","i","t","i","e","s">> :> 88)]

analyze_ct_scan ==
    [findings |-> << <<"N","o"," ","e","v","i","d","e","n","c","e"," ","o","f"," ","a","c","u","t","e"," ","i","n","t","r","a","c","r","a","n","i","a","l"," ","p","a","t","h","o","l","o","g","y">>,
                     <<"V","e","n","t","r","i","c","u","l","a","r"," ","s","y","s","t","e","m"," ","a","p","p","e","a","r","s"," ","n","o","r","m","a","l">>,
                     <<"N","o"," ","m","a","s","s"," ","l","e","s","i","o","n","s"," ","i","d","e","n","t","i","f","i","e","d">> >>,
     confidence_scores |-> (<<"n","o","_","a","c","u","t","e","_","p","a","t","h","o","l","o","g","y">> :> 92) @@ (<<"v","e","n","t","r","i","c","u","l","a","r","_","n","o","r","m","a","l">> :> 88)
                           @@ (<<"n","o","_","m","a","s","s","_","l","e","s","i","o","n","s">> :> 90)]

analyze_mri_scan ==
    [findings |-> << <<"N","o","r","m","a","l"," ","b","r","a","i","n"," ","p","a","r","e","n","c","h","y","m","a"," ","s","i","g","n","a","l"," ","i","n","t","e","n","s","i","t","y">>,
                     <<"N","o"," ","e","v","i","d","e","n","c","e"," ","o","f"," ","a","c","u","t","e"," ","s","t","r","o","k","e">>,
                     <<"W","h","i","t","e"," ","m","a","t","t","e","r"," ","c","h","a","n","g","e","s"," ","c","o","n","s","i","s","t","e","n","t"," ","w","i","t","h"," ","a","g","e">> >>,
     confidence_scores |-> (<<"n","o","r","m","a","l","_","p","a","r","e","n","c","h","y","m","a">> :> 89) @@ (<<"n","o","_","a","c","u","t","e","_","s","t","r","o","k","e">> :> 94)
                           @@ (<<"a","g","e","_","a","p","p","r","o","p","r","i","a","t","e","_","c","h","a","n","g","e","s">> :> 82)]

analyze_general_imaging ==
    [findings |-> << <<"I","m","a","g","e","s"," ","t","e","c","h","n","i","c","a","l","l","y"," ","a","d","e","q","u","a","t","e"," ","f","o","r"," ","i","n","t","e","r","p","r","e","t","a","t","i","o","n">>,
                     <<"N","o"," ","o","b","v","i","o","u","s"," ","a","b","n","o","r","m","a","l","i","t","i","e","s"," ","d","e","t","e","c","t","e","d">>,
                     <<"C","l","i","n","i","c","a","l"," ","c","o","r","r","e","l","a","t","i","o","n"," ","r","e","c","o","m","m","e","n","d","e","d">> >>,
     confidence_scores |-> (<<"t","e","c","h","n","i","c","a","l","_","a","d","e","q","u","a","c","y">> :> 85) @@ (<<"n","o","_","o","b","v","i","o","u","s","_","a","b","n","o","r","m","a","l","i","t","i","e","s">> :> 75)
                           @@ (<<"c","l","i","n","i","c","a","l","_","c","o","r","r","e","l","a","t","i","o","n","_","n","e","e","d","e","d">> :> 90)]

\* the characters of the process names of the sample image sets
ProcessNameText ==
    ("Chest X-ray" :> <<"C","h","e","s","t"," ","X","-","r","a","y">>) @@ ("CT Head" :> <<"C","T"," ","H","e","a","d">>)
    @@ ("MRI Brain" :> <<"M","R","I"," ","B","r","a","i","n">>) @@ ("Ultrasound" :> <<"U","l","t","r","a","s","o","u","n","d">>)

\* the RadiologyImage sets handed to the AI engine
RadiologyImages == {[process_name |-> name] : name \in DOMAIN ProcessNameText}

\* the branch on image_set.process_name.lower()
analyze_image_set(image_set) ==
    LET name == lower(ProcessNameText[image_set.process_name])
        analysis == IF str_in(<<"c","h","e","s","t">>, name) THEN analyze_chest_xray
                    ELSE IF str_in(<<"c","t">>, name) THEN analyze_ct_scan
                    ELSE IF str_in(<<"m","r","i">>, name) THEN analyze_mri_scan
                    ELSE analyze_general_imaging
    IN  [process_name |-> image_set.process_name,
         findings |-> analysis.findings,
         confidence_scores |-> analysis.confidence_scores]

analyze_radiology_images(radiology_images) ==
    [i \in 1..Len(radiology_images) |-> analyze_image_set(radiology_images[i])]

\* ---------------------------------------------------------------------
\* FHIRProcessor.convert_to_fhir: the resources of the bundle, with the
\* fields the diagnostic engine reads and the codings it could mistake for a
\* diagnosis (identifiers, references and timestamps are left out)
\* ---------------------------------------------------------------------
\* "%04d" and "%02d"
zero_padded(n, width) ==
    [i \in 1..width |-> Digits[((n \div (10 ^ (width - i))) % 10) + 1]]

\* birth_date.strftime("%Y-%m-%d")
strftime_ymd(date) ==
    zero_padded(date.year, 4) \o <<"-">> \o zero_padded(date.month, 2)
    \o <<"-">> \o zero_padded(date.day, 2)

create_fhir_patient(patient) ==
    [resource |-> [resourceType |-> "Patient",
                   birthDate |-> strftime_ymd(patient.birth_date)],
     request |-> [method |-> "POST", url |-> "Patient"]]

\* the Observation made even for an empty anamnesis
create_fhir_observations_always(patient_data) ==
    << [resource |-> [resourceType |-> "Observation",
                      code |-> [coding |-> << [code |-> <<"1","1","3","6","9","-","6">>,
                                               display |-> <<"H","i","s","t","o","r","y"," ","o","f"," ","P","a","s","t"," ","i","l","l","n","e","s","s">>] >>],
                      valueString |-> patient_data.anamnesis],
        request |-> [method |-> "POST", url |-> "Observation"]] >>

\* if patient_data.anamnesis: one Observation holding it
create_fhir_observations(patient_data) ==
    IF patient_data.anamnesis # <<>>
    THEN << [resource |-> [resourceType |-> "Observation",
                           code |-> [coding |-> << [code |-> <<"1","1","3","6","9","-","6">>,
                                                    display |-> <<"H","i","s","t","o","r","y"," ","o","f"," ","P","a","s","t"," ","i","l","l","n","e","s","s">>] >>],
                           valueString |-> patient_data.anamnesis],
             request |-> [method |-> "POST", url |-> "Observation"]] >>
    ELSE <<>>

create_fhir_conditions(patient_data) ==
    [i \in 1..Len(patient_data.diagnoses) |->
        [resource |-> [resourceType |-> "Condition",
                       code |-> [coding |-> << [code |-> patient_data.diagnoses[i].code,
                                                display |-> patient_data.diagnoses[i].name] >>]],
         request |-> [method |-> "POST", url |-> "Condition"]]]

RECURSIVE create_fhir_diagnostic_reports_from(_)
\* an ImagingStudy and a DiagnosticReport for every radiology image
create_fhir_diagnostic_reports_from(radiology_images) ==
    IF radiology_images = <<>> THEN <<>>
    ELSE << [resource |-> [resourceType |-> "ImagingStudy"],
             request |-> [method |-> "POST", url |-> "ImagingStudy"]],
            [resource |-> [resourceType |-> "DiagnosticReport",
                           code |-> [coding |-> << [code |-> <<"1","8","7","4","8","-","4">>,
                                                    display |-> <<"D","i","a","g","n","o","s","t","i","c"," ","i","m","a","g","i","n","g"," ","s","t","u","d","y">>] >>],
                           conclusion |-> <<"R","a","d","i","o","l","o","g","y"," ","s","t","u","d","y",":"," ">>
                               \o ProcessNameText[Head(radiology_images).process_name]],
             request |-> [method |-> "POST", url |-> "DiagnosticReport"]] >>
         \o create_fhir_diagnostic_reports_from(Tail(radiology_images))

create_fhir_diagnostic_reports(patient_data) ==
    create_fhir_diagnostic_reports_from(patient_data.radiology_images)

convert_to_fhir(patient_data) ==
    [resourceType |-> "Bundle",
     type |-> "collection",
     entry |-> <<create_fhir_patient(patient_data.patient)>>
               \o create_fhir_observations(patient_data)
               \o create_fhir_conditions(patient_data)
               \o create_fhir_diagnostic_reports(patient_data)]

\* the Diagnosis records (code, name) of the sample PatientData
DiagnosisSamples == {
    [code |-> <<"I","2","5",".","9">>, name |-> <<"C","h","e","s","t"," ","d","i","s","c","o","m","f","o","r","t">>],
    [code |-> <<"E","1","1",".","9">>, name |-> <<"T","y","p","e"," ","2"," ","d","i","a","b","e","t","e","s"," ","m","e","l","l","i","t","u","s"," ","w","i","t","h","o","u","t"," ","c","o","m","p","l","i","c","a","t","i","o","n","s">>],
    [code |-> <<>>, name |-> <<>>] }

\* the PatientData handed to convert_to_fhir
PatientDataSamples ==
    {[patient |-> [birth_date |-> [year |-> 1960, month |-> 6, day |-> 15]],
      anamnesis |-> anamnesis,
      diagnoses |-> diagnoses,
      radiology_images |-> radiology_images] :
        anamnesis \in {<<>>, <<"C","h","e","s","t"," ","p","a","i","n">>, <<"f","e","v","e","r">>},
        diagnoses \in SeqsUpTo(DiagnosisSamples, MaxDiagnoses),
        radiology_images \in {<<>>, << [process_name |-> "Chest X-ray"] >>}}

\* Patient resources: a birthDate that parses, one that does not, an empty
\* one and none
PatientEntries == {
    PatientResource(<<"1","9","6","0","-","0","6","-","1","5">>),
    PatientResource(<<"u","n","k","n","o","w","n">>),
    PatientResource(<<>>),
    [resource |-> [resourceType |-> "Patient"]] }

\* patient_data values that are no dict: None, lists, strings and a number
NonMappings == {
    [py_type |-> "NoneType"],
    [py_type |-> "list", value |-> <<>>],
    [py_type |-> "list", value |-> << <<"e","n","t","r","y">> >>],
    [py_type |-> "str", value |-> <<"a","b","c">>],
    [py_type |-> "str", value |-> <<"n","o"," ","e","n","t","r","y">>],
    [py_type |-> "int", value |-> 5] }

\* the days datetime.now() falls on: the patient born on 1960-06-15 is
\* 44, 50, 51, 65 and 66 years old
Todays == { [year |-> 2005, month |-> 1, day |-> 1],
            [year |-> 2011, month |-> 6, day |-> 14],
            [year |-> 2011, month |-> 6, day |-> 15],
            [year |-> 2026, month |-> 6, day |-> 14],
            [year |-> 2026, month |-> 6, day |-> 15] }

Bundle(entries) == [resourceType |-> "Bundle", entry |-> entries]

\* ---------------------------------------------------------------------
\* State: the arguments and the local variables of one generate_assessment
\* call, the position of the call, the result returned or the exception
\* raised, and the day datetime.now() gave the call if it read the clock;
\* self holds the attributes of the engine object, and calls the frames of
\* the calls that several callers make on that one engine at the same time;
\* app holds the attributes of the GUI window, request_create_json the
\* globals of that module, threads the fetch threads, after the callbacks queued
\* for the main loop, received_data the files on disk, shown the last message
\* the user was shown and clicks the number of fetch clicks
\* ---------------------------------------------------------------------
VARIABLES
    patient_data,
    radiology_analysis,
    pc,
    clinical_findings,
    differential_diagnoses,
    primary_diagnosis,
    confidence_score,
    urgency_level,
    risk_factors,
    follow_up_required,
    follow_up_timeline,
    treatment_recommendations,
    monitoring_requirements,
    contraindications,
    red_flags,
    assessment_result,
    exception,
    now,
    self,
    calls,
    app,
    request_create_json,
    selected_xray_global,
    threads,
    after,
    received_data,
    shown,
    clicks

args == <<patient_data, radiology_analysis>>
locals == <<clinical_findings, differential_diagnoses, primary_diagnosis,
            confidence_score, urgency_level, risk_factors, follow_up_required,
            follow_up_timeline, treatment_recommendations,
            monitoring_requirements, contraindications, red_flags>>
gui == <<app, request_create_json, selected_xray_global, threads, after, received_data, shown, clicks>>
others == <<self, calls, gui>>
vars == <<args, pc, locals, assessment_result, exception, now, others>>

\* DiagnosticEngine.__init__: the three tables become attributes of the engine
engine_init ==
    [icd10_codes |-> load_icd10_codes,
     snomed_codes |-> load_snomed_codes,
     diagnostic_rules |-> load_diagnostic_rules]

\* the callers that share the engine
Callers == {"caller_1", "caller_2"}

\* the frame of a caller that has no call in progress: the method called and
\* its query, the position of the call, the locals generate_assessment keeps
\* across its awaits, the day the call read the clock on, and what the call
\* returned or raised
idle ==
    [method |-> "none", query |-> <<>>, pc |-> "idle",
     clinical_findings |-> <<>>, differential_diagnoses |-> <<>>,
     now |-> None, returned |-> None, exception |-> None]

Init ==
    /\ \/ /\ patient_data \in {Bundle(es) : es \in SeqsUpTo(AllEntries, MaxEntries)}
                              \cup {[resourceType |-> "Bundle"]}
          /\ radiology_analysis = None
       \/ /\ patient_data \in {Bundle(es) : es \in SeqsUpTo(CoreEntries, MaxCoreEntries)}
          /\ radiology_analysis = None
       \/ /\ patient_data \in {Bundle(<<>>), Bundle(<<Observation(<<"p","a","i","n">>)>>)}
          /\ radiology_analysis \in
                {Some(ra) : ra \in SeqsUpTo(RadiologySamples, MaxAnalyses)}
       \/ /\ patient_data = Bundle(<<>>)
          /\ radiology_analysis \in
                {Some(analyze_radiology_images(images)) :
                    images \in SeqsUpTo(RadiologyImages, MaxAnalyses)}
       \/ \E sample \in PatientDataSamples :
             /\ patient_data = convert_to_fhir(sample)
             /\ radiology_analysis \in
                   {None, Some(analyze_radiology_images(sample.radiology_images))}
       \/ /\ patient_data \in {Bundle(es) : es \in SeqsUpTo(PatientEntries, MaxEntries)}
          /\ radiology_analysis = None
       \/ /\ patient_data \in NonMappings
          /\ radiology_analysis = None
    /\ pc = "extract_clinical_findings"
    /\ clinical_findings = <<>>
    /\ differential_diagnoses = <<>>
    /\ primary_diagnosis = None
    /\ confidence_score = Ratio(0, 1)
    /\ urgency_level = LOW
    /\ risk_factors = <<>>
    /\ follow_up_required = FALSE
    /\ follow_up_timeline = None
    /\ treatment_recommendations = <<>>
    /\ monitoring_requirements = <<>>
    /\ contraindications = <<>>
    /\ red_flags = <<>>
    /\ assessment_result = None
    /\ exception = None
    /\ now = None
    /\ self = engine_init
    /\ calls = [c \in Callers |-> idle]
    /\ app = [patient_data |-> None]
    /\ request_create_json = [path |-> <<>>]
    /\ selected_xray_global = None
    /\ threads = <<>>
    /\ after = <<>>
    /\ received_data = [folders |-> {}, files |-> {}]
    /\ shown = None
    /\ clicks = 0

\* clinical_findings = await self._extract_clinical_findings(patient_data);
\* an exception leaves generate_assessment through `except: ... raise`
ExtractClinicalFindings ==
    /\ pc = "extract_clinical_findings"
    /\ LET r == extract_clinical_findings(patient_data)
       IN  IF r.raised # None
           THEN /\ pc' = "raised"
                /\ exception' = r.raised
                /\ UNCHANGED clinical_findings
           ELSE /\ pc' = "extract_radiology_findings"
                /\ clinical_findings' = r.findings
                /\ UNCHANGED exception
    /\ UNCHANGED <<args, differential_diagnoses, primary_diagnosis,
                   confidence_score, urgency_level, risk_factors, follow_up_required,
                   follow_up_timeline, treatment_recommendations,
                   monitoring_requirements, contraindications, red_flags,
                   assessment_result, now>>
    /\ UNCHANGED others

\* if radiology_analysis: clinical_findings.extend(...)
ExtractRadiologyFindings ==
    /\ pc = "extract_radiology_findings"
    /\ pc' = "generate_differential_diagnoses"
    /\ clinical_findings' =
          IF radiology_analysis # None /\ radiology_analysis[1] # <<>>
          THEN clinical_findings \o extract_radiology_findings(radiology_analysis[1])
          ELSE clinical_findings
    /\ UNCHANGED <<args, differential_diagnoses, primary_diagnosis,
                   confidence_score, urgency_level, risk_factors, follow_up_required,
                   follow_up_timeline, treatment_recommendations,
                   monitoring_requirements, contraindications, red_flags,
                   assessment_result, exception, now>>
    /\ UNCHANGED others

GenerateDifferentialDiagnoses ==
    /\ pc = "generate_differential_diagnoses"
    /\ pc' = "determine_primary_diagnosis"
    /\ differential_diagnoses' = generate_differential_diagnoses(clinical_findings)
    /\ UNCHANGED <<args, clinical_findings, primary_diagnosis,
                   confidence_score, urgency_level, risk_factors, follow_up_required,
                   follow_up_timeline, treatment_recommendations,
                   monitoring_requirements, contraindications, red_flags,
                   assessment_result, exception, now>>
    /\ UNCHANGED others

DeterminePrimaryDiagnosis ==
    /\ pc = "determine_primary_diagnosis"
    /\ pc' = "calculate_confidence_score"
    /\ primary_diagnosis' = determine_primary_diagnosis(differential_diagnoses)
    /\ UNCHANGED <<args, clinical_findings, differential_diagnoses,
                   confidence_score, urgency_level, risk_factors, follow_up_required,
                   follow_up_timeline, treatment_recommendations,
                   monitoring_requirements, contraindications, red_flags,
                   assessment_result, exception, now>>
    /\ UNCHANGED others

CalculateConfidenceScore ==
    /\ pc = "calculate_confidence_score"
    /\ pc' = "determine_urgency_level"
    /\ confidence_score' =
          calculate_confidence_score(clinical_findings, differential_diagnoses)
    /\ UNCHANGED <<args, clinical_findings, differential_diagnoses, primary_diagnosis,
                   urgency_level, risk_factors, follow_up_required,
                   follow_up_timeline, treatment_recommendations,
                   monitoring_requirements, contraindications, red_flags,
                   assessment_result, exception, now>>
    /\ UNCHANGED others

DetermineUrgencyLevel ==
    /\ pc = "determine_urgency_level"
    /\ pc' = "identify_risk_factors"
    /\ urgency_level' = determine_urgency_level(clinical_findings, differential_diagnoses)
    /\ UNCHANGED <<args, clinical_findings, differential_diagnoses, primary_diagnosis,
                   confidence_score, risk_factors, follow_up_required,
                   follow_up_timeline, treatment_recommendations,
                   monitoring_requirements, contraindications, red_flags,
                   assessment_result, exception, now>>
    /\ UNCHANGED others

\* _calculate_age reads datetime.now(): the step depends on the day it runs
IdentifyRiskFactors ==
    /\ pc = "identify_risk_factors"
    /\ pc' = "determine_follow_up"
    /\ \E today \in Todays :
          /\ risk_factors' = identify_risk_factors(patient_data, clinical_findings, today)
          /\ now' = IF reads_clock(patient_data) THEN Some(today) ELSE None
    /\ UNCHANGED <<args, clinical_findings, differential_diagnoses, primary_diagnosis,
                   confidence_score, urgency_level, follow_up_required,
                   follow_up_timeline, treatment_recommendations,
                   monitoring_requirements, contraindications, red_flags,
                   assessment_result, exception>>
    /\ UNCHANGED others

DetermineFollowUp ==
    /\ pc = "determine_follow_up"
    /\ pc' = "generate_treatment_recommendations"
    /\ LET r == determine_follow_up(differential_diagnoses, urgency_level)
       IN  /\ follow_up_required' = r[1]
           /\ follow_up_timeline' = r[2]
    /\ UNCHANGED <<args, clinical_findings, differential_diagnoses, primary_diagnosis,
                   confidence_score, urgency_level, risk_factors,
                   treatment_recommendations,
                   monitoring_requirements, contraindications, red_flags,
                   assessment_result, exception, now>>
    /\ UNCHANGED others

GenerateTreatmentRecommendations ==
    /\ pc = "generate_treatment_recommendations"
    /\ pc' = "generate_monitoring_requirements"
    /\ treatment_recommendations' =
          generate_treatment_recommendations(differential_diagnoses, clinical_findings)
    /\ UNCHANGED <<args, clinical_findings, differential_diagnoses, primary_diagnosis,
                   confidence_score, urgency_level, risk_factors, follow_up_required,
                   follow_up_timeline,
                   monitoring_requirements, contraindications, red_flags,
                   assessment_result, exception, now>>
    /\ UNCHANGED others

GenerateMonitoringRequirements ==
    /\ pc = "generate_monitoring_requirements"
    /\ pc' = "identify_contraindications"
    /\ monitoring_requirements' =
          generate_monitoring_requirements(differential_diagnoses, urgency_level)
    /\ UNCHANGED <<args, clinical_findings, differential_diagnoses, primary_diagnosis,
                   confidence_score, urgency_level, risk_factors, follow_up_required,
                   follow_up_timeline, treatment_recommendations,
                   contraindications, red_flags,
                   assessment_result, exception, now>>
    /\ UNCHANGED others

IdentifyContraindications ==
    /\ pc = "identify_contraindications"
    /\ pc' = "identify_red_flags"
    /\ contraindications' = identify_contraindications(patient_data, differential_diagnoses)
    /\ UNCHANGED <<args, clinical_findings, differential_diagnoses, primary_diagnosis,
                   confidence_score, urgency_level, risk_factors, follow_up_required,
                   follow_up_timeline, treatment_recommendations,
                   monitoring_requirements, red_flags,
                   assessment_result, exception, now>>
    /\ UNCHANGED others

IdentifyRedFlags ==
    /\ pc = "identify_red_flags"
    /\ pc' = "return"
    /\ red_flags' = identify_red_flags(clinical_findings, differential_diagnoses)
    /\ UNCHANGED <<args, clinical_findings, differential_diagnoses, primary_diagnosis,
                   confidence_score, urgency_level, risk_factors, follow_up_required,
                   follow_up_timeline, treatment_recommendations,
                   monitoring_requirements, contraindications,
                   assessment_result, exception, now>>
    /\ UNCHANGED others

\* assessment_result = AssessmentResult(...); return assessment_result
ReturnAssessmentResult ==
    /\ pc = "return"
    /\ pc' = "done"
    /\ assessment_result' = Some(
          [primary_diagnosis |-> primary_diagnosis,
           differential_diagnoses |-> differential_diagnoses,
           clinical_findings |-> clinical_findings,
           confidence_score |-> confidence_score,
           urgency_level |-> urgency_level,
           radiology_analysis |->
               IF radiology_analysis # None /\ radiology_analysis[1] # <<>>
               THEN Some(radiology_analysis[1][1]) ELSE None,
           risk_factors |-> risk_factors,
           follow_up_required |-> follow_up_required,
           follow_up_timeline |-> follow_up_timeline,
           treatment_recommendations |-> treatment_recommendations,
           monitoring_requirements |-> monitoring_requirements,
           contraindications |-> contraindications,
           red_flags |-> red_flags])
    /\ UNCHANGED <<args, locals, exception, now>>
    /\ UNCHANGED others

Next ==
    \/ ExtractClinicalFindings
    \/ ExtractRadiologyFindings
    \/ GenerateDifferentialDiagnoses
    \/ DeterminePrimaryDiagnosis
    \/ CalculateConfidenceScore
    \/ DetermineUrgencyLevel
    \/ IdentifyRiskFactors
    \/ DetermineFollowUp
    \/ GenerateTreatmentRecommendations
    \/ GenerateMonitoringRequirements
    \/ IdentifyContraindications
    \/ IdentifyRedFlags
    \/ ReturnAssessmentResult

Spec == Init /\ [][Next]_vars

\* ---------------------------------------------------------------------
\* Code search, and several callers sharing one engine
\* ---------------------------------------------------------------------

\* the results.append({...}) of both search functions
search_result(info) ==
    [code |-> info.code, name |-> info.name, category |-> info.category]

\* results[:10]
first_10(results) == SubSeq(results, 1, Min(Len(results), 10))

\* search_icd10_codes without query.lower()
search_icd10_codes_case_sensitive(table, query) ==
    LET matches(info) ==
            str_in(query, lower(info.code)) \/ str_in(query, lower(info.name))
        found == SelectSeq(table, matches)
    IN  first_10([i \in 1..Len(found) |-> search_result(found[i])])

\* search_icd10_codes: query_lower in code.lower() or in info["name"].lower()
search_icd10_codes(table, query) ==
    LET query_lower == lower(query)
        matches(info) ==
            str_in(query_lower, lower(info.code)) \/ str_in(query_lower, lower(info.name))
        found == SelectSeq(table, matches)
    IN  first_10([i \in 1..Len(found) |-> search_result(found[i])])

\* search_snomed_codes: query_lower in code or in info["name"].lower()
search_snomed_codes(table, query) ==
    LET query_lower == lower(query)
        matches(info) ==
            str_in(query_lower, info.code) \/ str_in(query_lower, lower(info.name))
        found == SelectSeq(table, matches)
    IN  first_10([i \in 1..Len(found) |-> search_result(found[i])])

\* the queries callers search for
Queries == { <<"d","i","a","b","e","t","e","s">>, <<"D","i","a","b","e","t","e","s">>, <<"p","a","i","n">>, <<"P","A","I","N">>, <<"e","1","1">>, <<"2","2","2","5">>, <<"z","z","z">>, <<>> }

\* the arguments the callers of the shared engine pass to generate_assessment
EnginePatientData ==
    {Bundle(<<e>>) : e \in CoreEntries}
    \cup {Bundle(<<PatientResource(<<"1","9","6","0","-","0","6","-","1","5">>), Observation(<<"C","h","e","s","t"," ","p","a","i","n">>)>>),
          Bundle(<<>>), [py_type |-> "NoneType"]}

EngineRadiologyAnalysis ==
    {None} \cup {Some(<<ra>>) : ra \in RadiologySamples}

\* the part of the state that belongs to the single call of Spec
single_call == <<pc, locals, assessment_result, exception, now>>

\* one engine, the arguments every caller passes, and no call in progress
InitEngine ==
    /\ self = engine_init
    /\ patient_data \in EnginePatientData
    /\ radiology_analysis \in EngineRadiologyAnalysis
    /\ calls = [c \in Callers |-> idle]
    /\ app = [patient_data |-> None]
    /\ request_create_json = [path |-> <<>>]
    /\ selected_xray_global = None
    /\ threads = <<>>
    /\ after = <<>>
    /\ received_data = [folders |-> {}, files |-> {}]
    /\ shown = None
    /\ clicks = 0
    /\ pc = "shared"
    /\ clinical_findings = <<>>
    /\ differential_diagnoses = <<>>
    /\ primary_diagnosis = None
    /\ confidence_score = Ratio(0, 1)
    /\ urgency_level = LOW
    /\ risk_factors = <<>>
    /\ follow_up_required = FALSE
    /\ follow_up_timeline = None
    /\ treatment_recommendations = <<>>
    /\ monitoring_requirements = <<>>
    /\ contraindications = <<>>
    /\ red_flags = <<>>
    /\ assessment_result = None
    /\ exception = None
    /\ now = None

\* a caller calls engine.generate_assessment(patient_data, radiology_analysis)
CallGenerateAssessment(c) ==
    /\ calls[c].pc = "idle"
    /\ calls' = [calls EXCEPT ![c] =
          [idle EXCEPT !.method = "generate_assessment",
                       !.pc = "extract_clinical_findings"]]
    /\ UNCHANGED <<self, args, single_call, gui>>

\* a caller calls engine.search_icd10_codes(query) or
\* engine.search_snomed_codes(query)
CallSearch(c) ==
    /\ calls[c].pc = "idle"
    /\ \E method \in {"search_icd10_codes", "search_snomed_codes"}, query \in Queries :
          calls' = [calls EXCEPT ![c] =
              [idle EXCEPT !.method = method, !.query = query, !.pc = method]]
    /\ UNCHANGED <<self, args, single_call, gui>>

\* generate_assessment up to its second await: the clinical findings of the
\* bundle, extended by those of the radiology analysis
AwaitExtractClinicalFindings(c) ==
    /\ calls[c].pc = "extract_clinical_findings"
    /\ LET r == extract_clinical_findings(patient_data)
       IN  calls' = [calls EXCEPT ![c] =
              IF r.raised # None
              THEN [@ EXCEPT !.pc = "raised", !.exception = r.raised]
              ELSE [@ EXCEPT !.pc = "generate_differential_diagnoses",
                             !.clinical_findings =
                                 r.findings
                                 \o (IF radiology_analysis # None /\ radiology_analysis[1] # <<>>
                                     THEN extract_radiology_findings(radiology_analysis[1])
                                     ELSE <<>>)]]
    /\ UNCHANGED <<self, args, single_call, gui>>

\* differential_diagnoses = await self._generate_differential_diagnoses(...)
AwaitGenerateDifferentialDiagnoses(c) ==
    /\ calls[c].pc = "generate_differential_diagnoses"
    /\ calls' = [calls EXCEPT ![c] =
          [@ EXCEPT !.pc = "assess",
                    !.differential_diagnoses =
                        generate_differential_diagnoses(calls[c].clinical_findings)]]
    /\ UNCHANGED <<self, args, single_call, gui>>

\* the rest of generate_assessment, which awaits nothing: the derived fields,
\* the AssessmentResult and the return
ReturnFromGenerateAssessment(c) ==
    /\ calls[c].pc = "assess"
    /\ \E today \in Todays :
          LET findings == calls[c].clinical_findings
              diagnoses == calls[c].differential_diagnoses
              urgency == determine_urgency_level(findings, diagnoses)
              follow_up == determine_follow_up(diagnoses, urgency)
          IN  calls' = [calls EXCEPT ![c] =
                [@ EXCEPT
                   !.pc = "done",
                   !.now = IF reads_clock(patient_data) THEN Some(today) ELSE None,
                   !.returned = Some(
                      [primary_diagnosis |-> determine_primary_diagnosis(diagnoses),
                       differential_diagnoses |-> diagnoses,
                       clinical_findings |-> findings,
                       confidence_score |-> calculate_confidence_score(findings, diagnoses),
                       urgency_level |-> urgency,
                       radiology_analysis |->
                           IF radiology_analysis # None /\ radiology_analysis[1] # <<>>
                           THEN Some(radiology_analysis[1][1]) ELSE None,
                       risk_factors |-> identify_risk_factors(patient_data, findings, today),
                       follow_up_required |-> follow_up[1],
                       follow_up_timeline |-> follow_up[2],
                       treatment_recommendations |->
                           generate_treatment_recommendations(diagnoses, findings),
                       monitoring_requirements |->
                           generate_monitoring_requirements(diagnoses, urgency),
                       contraindications |-> identify_contraindications(patient_data, diagnoses),
                       red_flags |-> identify_red_flags(findings, diagnoses)])]]
    /\ UNCHANGED <<self, args, single_call, gui>>

\* a search that keeps the entries it found at the front of the table
SearchIcd10CodesRecentFirst(c) ==
    /\ calls[c].pc = "search_icd10_codes"
    /\ LET query_lower == lower(calls[c].query)
           matches(info) ==
               str_in(query_lower, lower(info.code)) \/ str_in(query_lower, lower(info.name))
           others_(info) == ~matches(info)
       IN  /\ calls' = [calls EXCEPT ![c] =
                 [@ EXCEPT !.pc = "done",
                           !.returned = Some(search_icd10_codes(self.icd10_codes, calls[c].query))]]
           /\ self' = [self EXCEPT !.icd10_codes =
                 SelectSeq(@, matches) \o SelectSeq(@, others_)]
    /\ UNCHANGED <<args, single_call, gui>>

\* search_icd10_codes runs on the engine's table and returns
SearchIcd10Codes(c) ==
    /\ calls[c].pc = "search_icd10_codes"
    /\ calls' = [calls EXCEPT ![c] =
          [@ EXCEPT !.pc = "done",
                    !.returned = Some(search_icd10_codes(self.icd10_codes, calls[c].query))]]
    /\ UNCHANGED <<self, args, single_call, gui>>

\* search_snomed_codes runs on the engine's table and returns
SearchSnomedCodes(c) ==
    /\ calls[c].pc = "search_snomed_codes"
    /\ calls' = [calls EXCEPT ![c] =
          [@ EXCEPT !.pc = "done",
                    !.returned = Some(search_snomed_codes(self.snomed_codes, calls[c].query))]]
    /\ UNCHANGED <<self, args, single_call, gui>>

\* the caller has taken the result or the exception and may call again
Finished(c) ==
    /\ calls[c].pc \in {"done", "raised"}
    /\ calls' = [calls EXCEPT ![c] = idle]
    /\ UNCHANGED <<self, args, single_call, gui>>

NextEngine ==
    \E c \in Callers :
        \/ CallGenerateAssessment(c)
        \/ CallSearch(c)
        \/ AwaitExtractClinicalFindings(c)
        \/ AwaitGenerateDifferentialDiagnoses(c)
        \/ ReturnFromGenerateAssessment(c)
        \/ SearchIcd10Codes(c)
        \/ SearchSnomedCodes(c)
        \/ Finished(c)

\* the calls of any number of callers on one engine, interleaved at will
SpecEngine == InitEngine /\ [][NextEngine]_vars

\* ---------------------------------------------------------------------
\* The desktop GUI (main.py) and the patient download it drives
\* (request_create_json.py)
\* ---------------------------------------------------------------------

\* the fetch clicks of one session
MaxClicks == 2

\* str(n) of a non-negative int, as an f-string formats it
RECURSIVE str_int(_)
str_int(n) ==
    IF n < 10 THEN <<Digits[n + 1]>>
    ELSE str_int(n \div 10) \o <<Digits[(n % 10) + 1]>>

\* s.replace(" ", "_")
replace_space(s) == [i \in 1..Len(s) |-> IF s[i] = " " THEN "_" ELSE s[i]]

\* s.strip()
strip(s) ==
    LET kept == {i \in 1..Len(s) : s[i] \notin Whitespace}
    IN  IF kept = {} THEN <<>>
        ELSE LET first == CHOOSE i \in kept : \A j \in kept : i <= j
                 last == CHOOSE i \in kept : \A j \in kept : j <= i
             IN  SubSeq(s, first, last)

\* s.endswith(suffix)
endswith(s, suffix) ==
    /\ Len(suffix) <= Len(s)
    /\ SubSeq(s, Len(s) - Len(suffix) + 1, Len(s)) = suffix

\* os.path.join(a, b)
path_join(a, b) == a \o <<"/">> \o b

\* a JSON null
null == [py_type |-> "NoneType"]

\* what the PACS API answers for a patient id: two patients with images, a
\* body without "patient" field, a patient whose name is null, and 404 for
\* every other id
get_patient_response(pid) ==
    IF pid = <<"1">> THEN
        [status |-> 200,
         json |-> [patient |-> [id |-> 1, name |-> <<"A","d","a">>, surname |-> <<"D","e"," ","V","r","i","e","s">>],
                   anamnesis |-> <<"c","h","e","s","t"," ","p","a","i","n">>,
                   radiologyImages |-> <<
                       [processName |-> <<"C","h","e","s","t"," ","X","-","r","a","y">>,
                        files |-> << [fileName |-> <<"c","h","e","s","t","_","1",".","p","n","g">>, fileData |-> <<"i","V","B","O","R","w","0","K">>] >>] >>]]
    ELSE IF pid = <<"2">> THEN
        [status |-> 200,
         json |-> [patient |-> [id |-> 2, name |-> <<"B","o">>, surname |-> <<"C","h","e","n">>],
                   anamnesis |-> <<"f","e","v","e","r">>,
                   radiologyImages |-> <<
                       [processName |-> <<"C","h","e","s","t"," ","X","-","r","a","y">>,
                        files |-> << [fileName |-> <<"L","A","T","E","R","A","L","_","2",".","P","N","G">>, fileData |-> <<"i","V","B","O","R","w","0","K">>],
                                     [fileName |-> <<"r","e","p","o","r","t","_","2",".","t","x","t">>, fileData |-> <<"b","m","9","0","Z","Q","=","=">>] >>] >>]]
    ELSE IF pid = <<"3">> THEN
        [status |-> 200, json |-> [message |-> <<"n","o"," ","s","u","c","h"," ","p","a","t","i","e","n","t">>]]
    ELSE IF pid = <<"5">> THEN
        [status |-> 200,
         json |-> [patient |-> [id |-> 5, name |-> null, surname |-> <<"D","o","e">>]]]
    ELSE [status |-> 404]

\* what the user types into the patient id entry
EntryTexts == { <<>>, <<" ">>, <<"1">>, <<" ","2"," ">>, <<"3">>, <<"5">>, <<"9">> }

\* save_patient_data lines 28-39: the folder and the JSON path of a response
\* that has a "patient" field whose name and surname are strings
patient_folder_of(data) ==
    path_join(<<"r","e","c","e","i","v","e","d","_","d","a","t","a">>,
              <<"p","a","t","i","e","n","t","_","i","d","_">> \o (LET pid == Get(data["patient"], "id", <<"u","n","k","n","o","w","n">>)
                                 IN  IF pid \in Nat THEN str_int(pid) ELSE pid))

json_path_of(data) ==
    LET patient == data["patient"]
        pid == Get(patient, "id", <<"u","n","k","n","o","w","n">>)
        name == replace_space(Get(patient, "name", <<"u","n","k","n","o","w","n">>))
        surname == replace_space(Get(patient, "surname", <<"u","n","k","n","o","w","n">>))
    IN  path_join(patient_folder_of(data),
                  name \o <<"_">> \o surname \o <<"_","i","d","_">>
                  \o (IF pid \in Nat THEN str_int(pid) ELSE pid) \o <<".","j","s","o","n">>)

\* whether lines 30-31 raise: .replace on a value that is no str
replace_raises(data) ==
    LET patient == data["patient"]
    IN  \/ Get(patient, "name", <<"u","n","k","n","o","w","n">>) = null
        \/ Get(patient, "surname", <<"u","n","k","n","o","w","n">>) = null

\* the image files lines 48-60 write into the folder
image_files(data) ==
    IF "radiologyImages" \in DOMAIN data
    THEN UNION { {study["files"][j]["fileName"] : j \in 1..Len(study["files"])} :
                    study \in Elems(data["radiologyImages"]) }
    ELSE {}

\* the sequences that list the members of a set once each, as os.listdir may
Orderings(S) ==
    {f \in [1..Cardinality(S) -> S] : \A i, j \in 1..Cardinality(S) : f[i] = f[j] => i = j}

\* the item at position i taken out of a sequence
Remove(s, i) == SubSeq(s, 1, i - 1) \o SubSeq(s, i + 1, Len(s))

\* HealthcareApp.__init__
app_init ==
    [patient_data |-> None, xrays |-> <<>>, image_thumbnails |-> {},
     selected_xray |-> None, patient_folder |-> None,
     workflow |-> FALSE, entry_assumptions |-> <<>>]

\* the file names of the gallery
xray_names(xrays) == {xrays[i][1] : i \in 1..Len(xrays)}

\* the part of the state that belongs to the diagnostic engine
engine == <<args, single_call, self, calls>>

\* the window after construction, the module globals as imported, an empty
\* received_data directory and no fetch started
InitGui ==
    /\ app = app_init
    /\ request_create_json = [path |-> <<"r","e","c","e","i","v","e","d","_","d","a","t","a","/","p","a","t","i","e","n","t","_","i","d","_","u","n","k","n","o","w","n","/","s","a","m","p","l","e","_","p","a","t","i","e","n","t",".","j","s","o","n">>]
    /\ selected_xray_global = None
    /\ threads = <<>>
    /\ after = <<>>
    /\ received_data = [folders |-> {}, files |-> {}]
    /\ shown = None
    /\ clicks = 0
    /\ self = engine_init
    /\ calls = [c \in Callers |-> idle]
    /\ patient_data = Bundle(<<>>)
    /\ radiology_analysis = None
    /\ pc = "gui"
    /\ clinical_findings = <<>>
    /\ differential_diagnoses = <<>>
    /\ primary_diagnosis = None
    /\ confidence_score = Ratio(0, 1)
    /\ urgency_level = LOW
    /\ risk_factors = <<>>
    /\ follow_up_required = FALSE
    /\ follow_up_timeline = None
    /\ treatment_recommendations = <<>>
    /\ monitoring_requirements = <<>>
    /\ contraindications = <<>>
    /\ red_flags = <<>>
    /\ assessment_result = None
    /\ exception = None
    /\ now = None

\* fetch_patient_async: the user types a patient id and clicks Fetch Patient
FetchPatientAsync ==
    /\ clicks < MaxClicks
    /\ clicks' = clicks + 1
    /\ \E text \in EntryTexts :
          LET pid == strip(text)
          IN  IF pid = <<>>
              THEN /\ shown' = Some([box |-> "showwarning", text |-> "Please enter a patient ID"])
                   /\ UNCHANGED threads
              ELSE /\ threads' = Append(threads,
                          [pid |-> pid, pc |-> "get_patient", data |-> None, raised_in |-> "none"])
                   /\ UNCHANGED shown
    /\ UNCHANGED <<app, request_create_json, selected_xray_global, after, received_data, engine>>

\* _safe_fetch line 112: self.patient_data = r.get_patient(pid);
\* raise_for_status raises on an error status
GetPatient(t) ==
    /\ threads[t].pc = "get_patient"
    /\ LET response == get_patient_response(threads[t].pid)
       IN  IF response.status >= 400
           THEN /\ threads' = [threads EXCEPT ![t].pc = "except",
                                              ![t].raised_in = "get_patient"]
                /\ UNCHANGED app
           ELSE /\ app' = [app EXCEPT !.patient_data = Some(response.json)]
                /\ threads' = [threads EXCEPT ![t].pc = "save_patient_data"]
    /\ UNCHANGED <<request_create_json, selected_xray_global, after, received_data, shown, clicks, engine>>

\* _safe_fetch line 113 calls r.save_patient_data(self.patient_data), which
\* runs up to line 40: the folder is made and the global path is set
SavePatientData(t) ==
    /\ threads[t].pc = "save_patient_data"
    /\ LET data == app.patient_data[1]
       IN  IF "patient" \notin DOMAIN data
           THEN /\ threads' = [threads EXCEPT ![t].pc = "return", ![t].data = None]
                /\ UNCHANGED <<request_create_json, received_data>>
           ELSE IF replace_raises(data)
           THEN /\ threads' = [threads EXCEPT ![t].pc = "except",
                                              ![t].raised_in = "save_patient_data"]
                /\ UNCHANGED <<request_create_json, received_data>>
           ELSE /\ threads' = [threads EXCEPT ![t].pc = "return", ![t].data = Some(data)]
                /\ received_data' = [received_data EXCEPT
                       !.folders = @ \cup {patient_folder_of(data)}]
                /\ request_create_json' = [request_create_json EXCEPT !.path = json_path_of(data)]
    /\ UNCHANGED <<app, selected_xray_global, after, shown, clicks, engine>>

\* save_patient_data lines 42-72 write the JSON and the images and return the
\* folder (None without "patient" field); _safe_fetch lines 113-115 assign
\* self.patient_folder and queue build_workflow and the success message
ReturnPatientFolder(t) ==
    /\ threads[t].pc = "return"
    /\ LET data == threads[t].data
       IN  IF data = None
           THEN /\ app' = [app EXCEPT !.patient_folder = None]
                /\ UNCHANGED received_data
           ELSE LET folder == patient_folder_of(data[1])
                    written == {json_path_of(data[1])}
                               \cup {path_join(folder, name) : name \in image_files(data[1])}
                IN  /\ received_data' = [received_data EXCEPT !.files = @ \cup written]
                    /\ app' = [app EXCEPT !.patient_folder = Some(folder)]
    /\ after' = after \o << "build_workflow", "showinfo" >>
    /\ threads' = Remove(threads, t)
    /\ UNCHANGED <<request_create_json, selected_xray_global, shown, clicks, engine>>

\* _safe_fetch lines 116-117: the exception handler queues the error message
ExceptFetch(t) ==
    /\ threads[t].pc = "except"
    /\ after' = Append(after, "showerror")
    /\ threads' = Remove(threads, t)
    /\ UNCHANGED <<app, request_create_json, selected_xray_global, received_data, shown, clicks, engine>>

\* build_workflow, run by the main loop from the after queue: the widgets are
\* made anew and the gallery lists the PNG files of the patient folder
BuildWorkflow ==
    /\ after # <<>> /\ Head(after) = "build_workflow"
    /\ after' = Tail(after)
    /\ LET folder == app.patient_folder
           listed == IF folder # None /\ folder[1] \in received_data.folders
                     THEN {name \in {<<"c","h","e","s","t","_","1",".","p","n","g">>, <<"L","A","T","E","R","A","L","_","2",".","P","N","G">>, <<"r","e","p","o","r","t","_","2",".","t","x","t">>} :
                              /\ path_join(folder[1], name) \in received_data.files
                              /\ endswith(lower(name), <<".","p","n","g">>)}
                     ELSE {}
       IN  \E order \in Orderings(listed) :
              app' = [app EXCEPT
                  !.xrays = [i \in 1..Len(order) |->
                                <<order[i], [filePath |-> path_join(folder[1], order[i])]>>],
                  !.image_thumbnails = IF listed # {} THEN listed ELSE @,
                  !.workflow = TRUE,
                  !.entry_assumptions = <<>>]
    /\ UNCHANGED <<request_create_json, selected_xray_global, threads, received_data, shown, clicks, engine>>

\* the message boxes _safe_fetch queued
ShowMessage ==
    /\ after # <<>> /\ Head(after) \in {"showinfo", "showerror"}
    /\ after' = Tail(after)
    /\ shown' = Some([box |-> Head(after),
                      text |-> IF Head(after) = "showinfo" THEN "Patient data retrieved."
                               ELSE "Failed to fetch patient"])
    /\ UNCHANGED <<app, request_create_json, selected_xray_global, threads, received_data, clicks, engine>>

\* show_xray, bound to the thumbnails of the gallery: the user clicks one
ShowXray ==
    /\ app.workflow
    /\ \E selected_file \in xray_names(app.xrays) :
          IF selected_file \in app.image_thumbnails
          THEN /\ app' = [app EXCEPT !.selected_xray = Some(selected_file)]
               /\ selected_xray_global' = Some(selected_file)
          ELSE UNCHANGED <<app, selected_xray_global>>
    /\ UNCHANGED <<request_create_json, threads, after, received_data, shown, clicks, engine>>

\* the user writes into the assumptions text widget
EnterAssumptions ==
    /\ app.workflow
    /\ app.entry_assumptions = <<>>
    /\ app' = [app EXCEPT !.entry_assumptions = <<"p","n","e","u","m","o","n","i","a">>]
    /\ UNCHANGED <<request_create_json, selected_xray_global, threads, after, received_data, shown, clicks, engine>>

\* submit_data: two guards, then os.path.join(r.image, ...) where the module
\* request_create_json has no attribute image
SubmitData ==
    /\ app.workflow
    /\ shown' = Some(
          IF strip(app.entry_assumptions) = <<>>
          THEN [box |-> "showwarning", text |-> "Please provide assumptions/diagnosis"]
          ELSE IF app.selected_xray = None
          THEN [box |-> "showwarning", text |-> "Please select an X-ray"]
          ELSE [box |-> "traceback", text |-> "AttributeError",
                selected_xray |-> app.selected_xray[1], path |-> request_create_json.path])
    /\ UNCHANGED <<app, request_create_json, selected_xray_global, threads, after, received_data, clicks, engine>>

\* generate_pdf_report: one guard, then the report is drawn and
\* os.path.join(r.image, ...) raises inside the try
GeneratePdfReport ==
    /\ app.workflow
    /\ shown' = Some(
          IF app.patient_data = None \/ app.selected_xray = None
          THEN [box |-> "showwarning",
                text |-> "Please fetch patient data and select an X-ray first."]
          ELSE [box |-> "showerror", text |-> "Failed to generate report",
                selected_xray |-> app.selected_xray[1], patient_data |-> app.patient_data[1]])
    /\ UNCHANGED <<app, request_create_json, selected_xray_global, threads, after, received_data, clicks, engine>>

NextGui ==
    \/ FetchPatientAsync
    \/ \E t \in 1..Len(threads) : GetPatient(t)
    \/ \E t \in 1..Len(threads) : SavePatientData(t)
    \/ \E t \in 1..Len(threads) : ReturnPatientFolder(t)
    \/ \E t \in 1..Len(threads) : ExceptFetch(t)
    \/ BuildWorkflow
    \/ ShowMessage
    \/ ShowXray
    \/ EnterAssumptions
    \/ SubmitData
    \/ GeneratePdfReport

\* the main loop and the fetch threads, interleaved at will
SpecGui == InitGui /\ [][NextGui]_vars

\* ---------------------------------------------------------------------
\* Properties of the returned AssessmentResult
\* ---------------------------------------------------------------------
Returned == pc = "done"
Result == assessment_result[1]

\* p occurs in s: some slice of s equals p
Occurs(p, s) == \E i \in 1..(Len(s) - Len(p) + 1) : SubSeq(s, i, i + Len(p) - 1) = p

\* the lower-case, space-joined descriptions of the findings
Blob(findings) ==
    join(<<" ">>, [i \in 1..Len(findings) |-> lower(findings[i].description)])

Codes(diagnoses) == [i \in 1..Len(diagnoses) |-> diagnoses[i].code]

\* the number of findings whose icd10_codes holds the code
Support(findings, code) ==
    Cardinality({i \in 1..Len(findings) :
        \E k \in 1..Len(findings[i].icd10_codes) : findings[i].icd10_codes[k] = code})

\* C1: the i-th returned diagnosis has differential_rank i, so the ranks of
\* the returned list are exactly 1..len(differential_diagnoses).
C1_RanksAreDense ==
    Returned =>
        \A i \in 1..Len(Result.differential_diagnoses) :
            Result.differential_diagnoses[i].differential_rank = i

\* C2: the returned differential list has at most 5 elements, however many
\* rules fire.
C2_AtMostFive ==
    Returned => Len(Result.differential_diagnoses) <= 5

\* more than five candidates were built and five were returned
C2_Witness ==
    /\ Returned
    /\ Len(candidate_diagnoses(clinical_findings)) > 5
    /\ Len(Result.differential_diagnoses) = 5

\* candidate i goes ahead of candidate j in the stable descending order
C3_Ahead(cands, i, j) ==
    LET score_i == cands[i].confidence + cands[i].probability
        score_j == cands[j].confidence + cands[j].probability
    IN  score_i > score_j \/ (score_i = score_j /\ i < j)

\* the 1-based place of candidate i in the stable descending order
C3_Place(cands, i) ==
    Cardinality({j \in 1..Len(cands) : C3_Ahead(cands, j, i)}) + 1

\* C3: the returned list is the first 5 elements of the candidates in
\* descending order of (confidence + probability) / 2, candidates of equal
\* score keeping their order of creation.
C3_StableTopFive ==
    Returned =>
        LET cands == candidate_diagnoses(clinical_findings)
            returned == Result.differential_diagnoses
        IN  /\ Len(returned) = (IF Len(cands) < 5 THEN Len(cands) ELSE 5)
            /\ \A i \in 1..Len(cands) :
                  C3_Place(cands, i) <= 5 => returned[C3_Place(cands, i)] = cands[i]

\* the sort moved a candidate, two returned candidates tie, and one is cut
C3_Witness ==
    /\ Returned
    /\ LET cands == candidate_diagnoses(clinical_findings)
       IN  /\ Len(cands) > 5
           /\ \E i \in 1..Len(cands) : C3_Place(cands, i) # i /\ C3_Place(cands, i) <= 5
           /\ \E i, j \in 1..Len(cands) :
                 /\ i < j
                 /\ C3_Place(cands, j) <= 5
                 /\ cands[i].confidence + cands[i].probability
                      = cands[j].confidence + cands[j].probability

\* C4: primary_diagnosis is differential_diagnoses[0] when the list is not
\* empty and None when it is.
C4_PrimaryIsFirst ==
    Returned =>
        IF Len(Result.differential_diagnoses) = 0
        THEN Result.primary_diagnosis = None
        ELSE Result.primary_diagnosis = Some(Result.differential_diagnoses[1])

\* a result with several diagnoses, the first one not being the last one
C4_Witness ==
    /\ Returned
    /\ Len(Result.differential_diagnoses) > 1
    /\ Result.differential_diagnoses[1]
         # Result.differential_diagnoses[Len(Result.differential_diagnoses)]
    /\ Result.primary_diagnosis = Some(Result.differential_diagnoses[1])

C5_Expected(n) == IF 50 + 10 * n > 90 THEN 90 ELSE 50 + 10 * n

\* C5: the confidence and the probability of every candidate with code c both
\* equal min(0.9, 0.5 + 0.1 n), n the number of findings whose icd10_codes
\* holds c; so they are equal, at least 0.5, at most 0.9, and 0.9 when n >= 4.
C5_ConfidenceFormula ==
    Returned =>
        \A d \in Elems(candidate_diagnoses(clinical_findings))
                   \cup Elems(Result.differential_diagnoses) :
            LET n == Support(clinical_findings, d.code)
            IN  /\ d.confidence = C5_Expected(n)
                /\ d.probability = C5_Expected(n)
                /\ d.confidence >= 50 /\ d.confidence <= 90
                /\ (n >= 4 => d.confidence = 90)

\* a returned diagnosis supported by five findings, and one supported by none
C5_Witness ==
    /\ Returned
    /\ \E d \in Elems(Result.differential_diagnoses) :
          Support(clinical_findings, d.code) >= 5 /\ d.confidence = 90
    /\ \E d \in Elems(Result.differential_diagnoses) :
          Support(clinical_findings, d.code) = 0 /\ d.confidence = 50

C6_Fires(phrases, blob) == \E p \in phrases : Occurs(p, blob)

\* the candidate codes of the fired rules, in rule table order
C6_Expected(blob) ==
    (IF C6_Fires({<<"c","h","e","s","t"," ","p","a","i","n">>, <<"c","h","e","s","t"," ","d","i","s","c","o","m","f","o","r","t">>}, blob)
     THEN << <<"I","2","5",".","9">>, <<"J","4","4",".","1">>, <<"R","5","0",".","9">> >> ELSE <<>>)
    \o (IF C6_Fires({<<"d","y","s","p","n","e","a">>, <<"s","h","o","r","t","n","e","s","s"," ","o","f"," ","b","r","e","a","t","h">>, <<"b","r","e","a","t","h","i","n","g"," ","d","i","f","f","i","c","u","l","t","y">>}, blob)
        THEN << <<"J","4","4",".","1">>, <<"I","2","5",".","9">>, <<"C","7","8",".","0","0">> >> ELSE <<>>)
    \o (IF C6_Fires({<<"f","e","v","e","r">>, <<"e","l","e","v","a","t","e","d"," ","t","e","m","p","e","r","a","t","u","r","e">>, <<"p","y","r","e","x","i","a">>}, blob)
        THEN << <<"R","5","0",".","9">>, <<"J","4","4",".","1">>, <<"K","2","1",".","9">> >> ELSE <<>>)

\* C6: a rule fires exactly when one of its trigger phrases occurs in the
\* lower-case space-joined blob of finding descriptions, and the candidate
\* list before ranking is the concatenation, in rule table order, of the code
\* lists of the fired rules, a code of two fired rules appearing twice.
C6_CandidatesOfFiredRules ==
    Returned =>
        Codes(candidate_diagnoses(clinical_findings)) = C6_Expected(Blob(clinical_findings))

\* two rules fired and their common code R50.9 is a candidate twice, while
\* the third rule did not fire
C6_Witness ==
    /\ Returned
    /\ LET codes == Codes(candidate_diagnoses(clinical_findings))
       IN  /\ Len(codes) = 6
           /\ Cardinality({i \in 1..Len(codes) : codes[i] = <<"R","5","0",".","9">>}) = 2
           /\ <<"C","7","8",".","0","0">> \notin Elems(codes)

\* the names of the rule groups one of whose rules fires on the findings
C7_FiredRules(findings) ==
    {g \in 1..Len(diagnostic_rules) :
        \E r \in 1..Len(diagnostic_rules[g].rules) :
            rule_fires(diagnostic_rules[g].rules[r], findings)}

\* C7: the order of the findings affects neither the set of rules that fire
\* nor the urgency level: every permutation of the finding list gives the
\* same fired rules and the same urgency.
C7_OrderIndependent ==
    Returned =>
        \A q \in Permutations(1..Len(clinical_findings)) :
            LET permuted == [i \in 1..Len(clinical_findings) |-> clinical_findings[q[i]]]
            IN  /\ C7_FiredRules(permuted) = C7_FiredRules(clinical_findings)
                /\ determine_urgency_level(permuted, <<>>) = Result.urgency_level

\* C8: when the blob holds "chest pain" and no trigger phrase of another
\* rule, the differential list holds exactly I25.9, J44.1 and R50.9, the
\* urgency is HIGH and the follow-up is required within "24-48 hours".
C8_ScenarioA ==
    (/\ Returned
     /\ Occurs(<<"c","h","e","s","t"," ","p","a","i","n">>, Blob(clinical_findings))
     /\ ~C6_Fires({<<"d","y","s","p","n","e","a">>, <<"s","h","o","r","t","n","e","s","s"," ","o","f"," ","b","r","e","a","t","h">>, <<"b","r","e","a","t","h","i","n","g"," ","d","i","f","f","i","c","u","l","t","y">>,
                   <<"f","e","v","e","r">>, <<"e","l","e","v","a","t","e","d"," ","t","e","m","p","e","r","a","t","u","r","e">>, <<"p","y","r","e","x","i","a">>},
                  Blob(clinical_findings)))
    => /\ Len(Result.differential_diagnoses) = 3
       /\ Elems(Codes(Result.differential_diagnoses)) = {<<"I","2","5",".","9">>, <<"J","4","4",".","1">>, <<"R","5","0",".","9">>}
       /\ Result.urgency_level = HIGH
       /\ Result.follow_up_required = TRUE
       /\ Result.follow_up_timeline = Some("24-48 hours")

\* scenario A met by a description written with a capital letter
C8_Witness ==
    /\ Returned
    /\ \E i \in 1..Len(clinical_findings) :
          clinical_findings[i].description = <<"C","h","e","s","t"," ","p","a","i","n">>
    /\ Occurs(<<"c","h","e","s","t"," ","p","a","i","n">>, Blob(clinical_findings))
    /\ ~C6_Fires({<<"d","y","s","p","n","e","a">>, <<"s","h","o","r","t","n","e","s","s"," ","o","f"," ","b","r","e","a","t","h">>, <<"b","r","e","a","t","h","i","n","g"," ","d","i","f","f","i","c","u","l","t","y">>,
                  <<"f","e","v","e","r">>, <<"e","l","e","v","a","t","e","d"," ","t","e","m","p","e","r","a","t","u","r","e">>, <<"p","y","r","e","x","i","a">>},
                 Blob(clinical_findings))
    /\ Result.urgency_level = HIGH

\* the input holds no history entry, no diagnosis and no radiology finding
C9_NoFindingInput ==
    /\ is_mapping(patient_data)
    /\ \A e \in Elems(Get(patient_data, "entry", <<>>)) :
          LET resource == Get(e, "resource", EmptyDict)
          IN  /\ ~(Get(resource, "resourceType", "None") = "Observation"
                   /\ "valueString" \in DOMAIN resource)
              /\ Get(resource, "resourceType", "None") # "Condition"
    /\ radiology_analysis # None =>
          \A a \in Elems(radiology_analysis[1]) : a.findings = <<>>

\* C9: an input that yields no finding raises no error and returns an empty
\* differential list, no primary diagnosis, confidence_score 0.0, urgency LOW,
\* follow_up_required False and no follow_up_timeline.
C9_ScenarioB ==
    C9_NoFindingInput =>
        /\ pc # "raised"
        /\ Returned =>
              /\ Result.clinical_findings = <<>>
              /\ Result.differential_diagnoses = <<>>
              /\ Result.primary_diagnosis = None
              /\ Result.confidence_score.num = 0
              /\ Result.urgency_level = LOW
              /\ Result.follow_up_required = FALSE
              /\ Result.follow_up_timeline = None

\* a result returned for a bundle with entries and a radiology analysis
\* list, none of which yields a finding
C9_Witness ==
    /\ Returned
    /\ C9_NoFindingInput
    /\ \/ Len(Get(patient_data, "entry", <<>>)) > 1
       \/ (radiology_analysis # None /\ radiology_analysis[1] # <<>>)

\* C10: every one of the keywords diabetes, hypertension, smoking that occurs
\* in a finding description contributes its risk factor to risk_factors.
C10_EveryKeywordContributes ==
    Returned =>
        \A i \in 1..Len(clinical_findings) :
            LET text == lower(clinical_findings[i].description)
            IN  /\ Occurs(<<"d","i","a","b","e","t","e","s">>, text) => "Diabetes mellitus" \in Elems(Result.risk_factors)
                /\ Occurs(<<"h","y","p","e","r","t","e","n","s","i","o","n">>, text) => "Hypertension" \in Elems(Result.risk_factors)
                /\ Occurs(<<"s","m","o","k","i","n","g">>, text) => "Smoking history" \in Elems(Result.risk_factors)

\* the whitespace-separated tokens of a lower-cased name: the slices that
\* hold no space and that a space or an end of the name bounds on each side
C11_TokensOf(name) ==
    LET s == lower(name)
    IN  {SubSeq(s, i, j) : <<i, j>> \in
            {<<a, b>> \in (1..Len(s)) \X (1..Len(s)) :
                /\ a <= b
                /\ \A k \in a..b : s[k] # " "
                /\ (a = 1 \/ s[a - 1] = " ")
                /\ (b = Len(s) \/ s[b + 1] = " ")}}

C11_Icd10Tokens == [i \in 1..Len(icd10_codes) |-> C11_TokensOf(icd10_codes[i].name)]
C11_SnomedTokens == [i \in 1..Len(snomed_codes) |-> C11_TokensOf(snomed_codes[i].name)]

\* result is the lookup of text in table: it holds the code of an entry
\* exactly when a token of the entry's name occurs in the lower-cased text,
\* and it holds no code twice
C11_IsLookup(result, table, tokens, text) ==
    /\ \A i \in 1..Len(table) :
          (table[i].code \in Elems(result))
             <=> (\E t \in tokens[i] : Occurs(t, lower(text)))
    /\ \A c \in Elems(result) : HasKey(table, c)
    /\ \A a, b \in 1..Len(result) : result[a] = result[b] => a = b

\* C11: the code lookup of a text holds the code of a table entry exactly
\* when the lower-cased text contains, as a substring, one of the
\* whitespace-separated tokens of the entry's lower-cased name; it holds each
\* code at most once, and the SNOMED lookup of "chest pain" holds 225358003.
C11_LookupByToken ==
    Returned =>
        \A f \in Elems(Result.clinical_findings) :
            /\ f.finding_type \in {SYMPTOM, IMAGING} =>
                  C11_IsLookup(f.icd10_codes, icd10_codes, C11_Icd10Tokens, f.description)
            /\ (f.finding_type = SIGN => f.description # <<"U","n","k","n","o","w","n"," ","c","o","n","d","i","t","i","o","n">>) =>
                  C11_IsLookup(f.snomed_codes, snomed_codes, C11_SnomedTokens, f.description)
            /\ lower(f.description) = <<"c","h","e","s","t"," ","p","a","i","n">> =>
                  <<"2","2","5","3","5","8","0","0","3">> \in Elems(f.snomed_codes)

\* "Chest pain" was looked up in the SNOMED table, and a text was looked up
\* in the ICD-10 table that matches names by tokens that keep a comma
C11_Witness ==
    /\ Returned
    /\ \E f \in Elems(Result.clinical_findings) :
          /\ f.description = <<"C","h","e","s","t"," ","p","a","i","n">>
          /\ f.snomed_codes = << <<"2","2","2","5","3","0","0","0">>, <<"2","2","5","3","5","8","0","0","3">>, <<"2","7","1","7","3","7","0","0","0">> >>
    /\ \E f \in Elems(Result.clinical_findings) :
          /\ f.finding_type = SYMPTOM
          /\ <<"M","7","9",".","3">> \in Elems(f.icd10_codes)
          /\ <<"R","5","0",".","9">> \in Elems(f.icd10_codes)

\* one of the keywords occurs in the blob of the returned findings
C12_BlobHolds(keywords) ==
    \E keyword \in keywords : Occurs(keyword, Blob(Result.clinical_findings))

C12_HighKeywords ==
    {<<"a","c","u","t","e">>, <<"s","e","v","e","r","e">>, <<"c","r","i","t","i","c","a","l">>, <<"e","m","e","r","g","e","n","c","y">>, <<"c","h","e","s","t"," ","p","a","i","n">>, <<"s","h","o","r","t","n","e","s","s"," ","o","f"," ","b","r","e","a","t","h">>}
C12_MediumKeywords == {<<"m","o","d","e","r","a","t","e">>, <<"w","o","r","s","e","n","i","n","g">>, <<"p","e","r","s","i","s","t","e","n","t">>}

\* C12: urgency_level is HIGH when the blob holds a high keyword, otherwise
\* MEDIUM when it holds a medium keyword, otherwise LOW; it is never CRITICAL.
C12_UrgencyByKeywords ==
    /\ urgency_level # CRITICAL
    /\ Returned =>
          /\ Result.urgency_level # CRITICAL
          /\ Result.urgency_level =
                IF C12_BlobHolds(C12_HighKeywords) THEN HIGH
                ELSE IF C12_BlobHolds(C12_MediumKeywords) THEN MEDIUM
                ELSE LOW

\* a result whose blob holds a medium keyword and a high keyword: HIGH wins
C12_Witness ==
    /\ Returned
    /\ C12_BlobHolds(C12_HighKeywords)
    /\ C12_BlobHolds(C12_MediumKeywords)
    /\ Result.urgency_level = HIGH

\* C13: follow-up is required within "24-48 hours" at HIGH urgency, within
\* "1-2 weeks" at MEDIUM urgency, within "2-4 weeks" at another urgency with
\* a non-empty differential list, and not required otherwise; so
\* follow_up_required is False exactly when the urgency is LOW and the list
\* is empty, and follow_up_timeline is None exactly when it is False.
C13_FollowUpPolicy ==
    Returned =>
        /\ Result.urgency_level = HIGH =>
              (Result.follow_up_required /\ Result.follow_up_timeline = Some("24-48 hours"))
        /\ Result.urgency_level = MEDIUM =>
              (Result.follow_up_required /\ Result.follow_up_timeline = Some("1-2 weeks"))
        /\ (Result.urgency_level \notin {HIGH, MEDIUM}
              /\ Len(Result.differential_diagnoses) > 0) =>
              (Result.follow_up_required /\ Result.follow_up_timeline = Some("2-4 weeks"))
        /\ (Result.urgency_level \notin {HIGH, MEDIUM}
              /\ Len(Result.differential_diagnoses) = 0) =>
              (~Result.follow_up_required /\ Result.follow_up_timeline = None)
        /\ (Result.follow_up_required = FALSE)
              <=> (Result.urgency_level = LOW /\ Result.differential_diagnoses = <<>>)
        /\ (Result.follow_up_timeline = None) <=> (Result.follow_up_required = FALSE)

\* LOW urgency with a diagnosis: the third branch of the policy
C13_Witness ==
    /\ Returned
    /\ Result.urgency_level = LOW
    /\ Result.differential_diagnoses # <<>>
    /\ Result.follow_up_required = TRUE
    /\ Result.follow_up_timeline = Some("2-4 weeks")

\* the sum of the confidence fields of a list, added from its first element on
C14_Total(items) ==
    LET RECURSIVE upto(_)
        upto(n) == IF n = 0 THEN 0 ELSE upto(n - 1) + items[n].confidence
    IN  upto(Len(items))

\* C14: confidence_score = 0.6 * (mean confidence of the findings)
\* + 0.4 * (mean confidence of the returned diagnoses), the mean of an empty
\* list being 0.0; no input divides by zero, and with findings but no
\* diagnosis the score is 0.6 times the mean finding confidence.
C14_WeightedMeans ==
    Returned =>
        LET score == Result.confidence_score
            findings == Result.clinical_findings
            diagnoses == Result.differential_diagnoses
            F == IF Len(findings) = 0 THEN 1 ELSE Len(findings)
            D == IF Len(diagnoses) = 0 THEN 1 ELSE Len(diagnoses)
        IN  /\ score.den > 0
            /\ score.num * 10 * F * D
                 = score.den * (6 * C14_Total(findings) * D + 4 * C14_Total(diagnoses) * F)
            /\ (Len(findings) > 0 /\ Len(diagnoses) = 0) =>
                  score.num * 10 * Len(findings) = score.den * 6 * C14_Total(findings)
            /\ (Len(findings) = 0 /\ Len(diagnoses) = 0) => score.num = 0

\* findings of different confidence, no diagnosis: the score is 0.6 times
\* their mean
C14_Witness ==
    /\ Returned
    /\ Len(Result.clinical_findings) > 1
    /\ \E f, g \in Elems(Result.clinical_findings) : f.confidence # g.confidence
    /\ Result.differential_diagnoses = <<>>
    /\ Result.confidence_score.num > 0

C15_Keywords ==
    {<<"s","e","v","e","r","e">>, <<"a","c","u","t","e">>, <<"s","u","d","d","e","n">>, <<"w","o","r","s","e","n","i","n","g">>, <<"u","n","a","b","l","e"," ","t","o">>,
     <<"c","h","e","s","t"," ","p","a","i","n">>, <<"s","h","o","r","t","n","e","s","s"," ","o","f"," ","b","r","e","a","t","h">>, <<"l","o","s","s"," ","o","f"," ","c","o","n","s","c","i","o","u","s","n","e","s","s">>}

\* the positions of the findings whose lower-cased description holds a keyword
C15_Flagged(findings) ==
    {i \in 1..Len(findings) :
        \E keyword \in C15_Keywords : Occurs(keyword, lower(findings[i].description))}

\* C15: red_flags holds exactly one entry "Red flag: " + description for
\* every finding whose lower-cased description holds a red-flag keyword, in
\* finding order, the description as written and without deduplication;
\* the other findings contribute nothing.
C15_RedFlagsEchoFindings ==
    Returned =>
        LET findings == Result.clinical_findings
            flagged == C15_Flagged(findings)
        IN  /\ Len(Result.red_flags) = Cardinality(flagged)
            /\ \A i \in flagged :
                  Result.red_flags[Cardinality({j \in flagged : j <= i})]
                     = <<"R","e","d"," ","f","l","a","g",":"," ">> \o findings[i].description

\* two findings of the same description written with a capital letter are
\* both flagged, and a third finding is not
C15_Witness ==
    /\ Returned
    /\ Len(Result.red_flags) >= 2
    /\ Result.red_flags[1] = <<"R","e","d"," ","f","l","a","g",":"," ","C","h","e","s","t"," ","p","a","i","n">>
    /\ Result.red_flags[2] = <<"R","e","d"," ","f","l","a","g",":"," ","C","h","e","s","t"," ","p","a","i","n">>
    /\ Len(Result.red_flags) < Len(Result.clinical_findings)

\* the entries of the bundle, none for an input without "entry"
C16_Entries == IF is_mapping(patient_data) THEN Get(patient_data, "entry", <<>>) ELSE <<>>

\* the age in full years, on the day the call read the clock, of the Patient
\* resource at position i; None for another resource and for a birthDate
\* that is absent, empty or unparsable
C16_Age(i) ==
    LET resource == Get(C16_Entries[i], "resource", EmptyDict)
        birth_date == Get(resource, "birthDate", None)
        parsed == fromisoformat(birth_date)
    IN  IF Get(resource, "resourceType", "None") = "Patient" /\ parsed # None /\ now # None
        THEN Some(((now[1].year * 10000 + now[1].month * 100 + now[1].day)
                   - (parsed[1].year * 10000 + parsed[1].month * 100 + parsed[1].day))
                  \div 10000)
        ELSE None

\* how many times the risk factor is in the returned list
C16_Count(factor) ==
    Cardinality({k \in 1..Len(Result.risk_factors) : Result.risk_factors[k] = factor})

\* the number of Patient resources whose age lies in lo..hi
C16_Aged(lo, hi) ==
    Cardinality({i \in 1..Len(C16_Entries) :
        C16_Age(i) # None /\ C16_Age(i)[1] >= lo /\ C16_Age(i)[1] <= hi})

\* the risk factors hold "Advanced age" once per patient older than 65 and
\* "Middle age" once per patient aged from_age to 65, and a bundle of Patient
\* resources raises no error
C16_Bands(from_age) ==
    /\ (is_mapping(patient_data) /\ Elems(C16_Entries) \subseteq PatientEntries) =>
          pc # "raised"
    /\ (Returned /\ is_mapping(patient_data)) =>
          /\ C16_Count("Advanced age (>65 years)") = C16_Aged(66, 200)
          /\ C16_Count("Middle age (50-65 years)") = C16_Aged(from_age, 65)

\* C16: an age above 65 adds "Advanced age (>65 years)", every age from 50
\* to 65 inclusive adds "Middle age (50-65 years)", a lower age adds nothing,
\* and an absent or unparsable birthDate adds no age factor and raises no
\* error.
C16_AgeBands == C16_Bands(50)

\* C17: a patient_data that is no mapping (None, a list, a string, a number)
\* makes the call fail with an InvalidInputError before anything is
\* computed, and no AssessmentResult is returned.
C17_InvalidInputRejected ==
    ~is_mapping(patient_data) =>
        /\ pc \in {"extract_clinical_findings", "raised"}
        /\ pc = "raised" => exception = Some("InvalidInputError")
        /\ assessment_result = None

\* C18: for a patient_data that is a mapping the call raises no error,
\* whatever is missing from it: "entry", an entry's "resource", a resource's
\* resourceType, an Observation's valueString, a Condition's "code", its
\* "coding" or the elements of its coding list, a Patient's birthDate, the
\* radiology analysis.
C18_MappingNeverRaises ==
    is_mapping(patient_data) => (pc # "raised" /\ exception = None)

\* the AssessmentResult of a call with the same arguments that reads the
\* clock on the day today
C19_CallAt(today) ==
    LET findings ==
            extract_clinical_findings(patient_data).findings
            \o (IF radiology_analysis # None /\ radiology_analysis[1] # <<>>
                THEN extract_radiology_findings(radiology_analysis[1]) ELSE <<>>)
        diagnoses == generate_differential_diagnoses(findings)
        urgency == determine_urgency_level(findings, diagnoses)
        follow_up == determine_follow_up(diagnoses, urgency)
    IN  [primary_diagnosis |-> determine_primary_diagnosis(diagnoses),
         differential_diagnoses |-> diagnoses,
         clinical_findings |-> findings,
         confidence_score |-> calculate_confidence_score(findings, diagnoses),
         urgency_level |-> urgency,
         radiology_analysis |->
             IF radiology_analysis # None /\ radiology_analysis[1] # <<>>
             THEN Some(radiology_analysis[1][1]) ELSE None,
         risk_factors |-> identify_risk_factors(patient_data, findings, today),
         follow_up_required |-> follow_up[1],
         follow_up_timeline |-> follow_up[2],
         treatment_recommendations |-> generate_treatment_recommendations(diagnoses, findings),
         monitoring_requirements |-> generate_monitoring_requirements(diagnoses, urgency),
         contraindications |-> identify_contraindications(patient_data, diagnoses),
         red_flags |-> identify_red_flags(findings, diagnoses)]

\* C19: two calls with identical inputs return identical results whatever
\* the moment each call is made: a second call made on any day returns the
\* result of the first.
C19_SameResultAtAnyMoment ==
    Returned => \A today \in Todays : C19_CallAt(today) = Result

\* the diagnosis carries the code and the name of one entry of the ICD-10 table
C20_FromTable(d) ==
    \E i \in 1..Len(icd10_codes) :
        icd10_codes[i].code = d.code /\ icd10_codes[i].name = d.name

\* the codes of a list that are keys of the ICD-10 table, in order
C20_Known(codes) ==
    LET known(c) == \E i \in 1..Len(icd10_codes) : icd10_codes[i].code = c
    IN  SelectSeq(codes, known)

\* C20: every Diagnosis produced has a code that is a key of the ICD-10 table
\* and the name of that entry; a candidate code of a rule that is no key of
\* the table produces no Diagnosis.
C20_DiagnosesFromTable ==
    /\ \A d \in Elems(differential_diagnoses) : C20_FromTable(d)
    /\ primary_diagnosis # None => C20_FromTable(primary_diagnosis[1])
    /\ Returned =>
          /\ \A d \in Elems(Result.differential_diagnoses) : C20_FromTable(d)
          /\ \A d \in Elems(candidate_diagnoses(Result.clinical_findings)) : C20_FromTable(d)
          /\ Codes(candidate_diagnoses(Result.clinical_findings))
                = C20_Known(C6_Expected(Blob(Result.clinical_findings)))

\* diagnoses of three different table entries were returned, each under the
\* name of its entry
C20_Witness ==
    /\ Returned
    /\ \E d \in Elems(Result.differential_diagnoses) :
          d.code = <<"R","5","0",".","9">> /\ d.name = <<"F","e","v","e","r",","," ","u","n","s","p","e","c","i","f","i","e","d">>
    /\ \E d \in Elems(Result.differential_diagnoses) :
          d.code = <<"C","7","8",".","0","0">> /\ d.name = <<"S","e","c","o","n","d","a","r","y"," ","m","a","l","i","g","n","a","n","t"," ","n","e","o","p","l","a","s","m"," ","o","f"," ","u","n","s","p","e","c","i","f","i","e","d"," ","l","u","n","g">>
    /\ \E d \in Elems(Result.differential_diagnoses) :
          d.code = <<"I","2","5",".","9">> /\ d.name = <<"C","h","r","o","n","i","c"," ","i","s","c","h","e","m","i","c"," ","h","e","a","r","t"," ","d","i","s","e","a","s","e",","," ","u","n","s","p","e","c","i","f","i","e","d">>

\* the positions of the findings whose icd10_codes holds the code
C21_Supporting(findings, code) ==
    {i \in 1..Len(findings) :
        \E k \in 1..Len(findings[i].icd10_codes) : findings[i].icd10_codes[k] = code}

\* C21: the evidence of a diagnosis with code c holds exactly one
\* DiagnosticEvidence per finding whose icd10_codes holds c, in finding
\* order, with the description, confidence (as strength) and source of that
\* finding; so len(evidence) is the count n of the confidence formula and a
\* finding whose icd10_codes lacks c contributes nothing.
C21_EvidencePerFinding ==
    Returned =>
        \A d \in Elems(Result.differential_diagnoses) :
            LET findings == Result.clinical_findings
                supporting == C21_Supporting(findings, d.code)
            IN  /\ Len(d.evidence) = Cardinality(supporting)
                /\ Len(d.evidence) = Support(findings, d.code)
                /\ \A i \in supporting :
                      LET e == d.evidence[Cardinality({j \in supporting : j <= i})]
                      IN  /\ e.description = findings[i].description
                          /\ e.strength = findings[i].confidence
                          /\ e.source = findings[i].source

\* a diagnosis whose evidence comes from two findings of different source
\* and confidence, and a diagnosis to which one of the findings contributes
\* nothing
C21_Witness ==
    /\ Returned
    /\ \E d \in Elems(Result.differential_diagnoses) :
          /\ Len(d.evidence) >= 2
          /\ \E e, g \in Elems(d.evidence) : e.source # g.source /\ e.strength # g.strength
    /\ \E d \in Elems(Result.differential_diagnoses) :
          /\ Len(d.evidence) >= 1
          /\ Len(d.evidence) < Len(Result.clinical_findings)

\* the bundle entries and the radiology analyses handed to the call
C22_Entries == IF is_mapping(patient_data) THEN Get(patient_data, "entry", <<>>) ELSE <<>>
C22_Analyses == IF radiology_analysis = None THEN <<>> ELSE radiology_analysis[1]

C22_Resource(i) == Get(C22_Entries[i], "resource", EmptyDict)
C22_Kind(i) == Get(C22_Resource(i), "resourceType", "None")

\* the positions of the bundle entries that are raw records: an Observation
\* with a valueString or a Condition
C22_Records ==
    {i \in 1..Len(C22_Entries) :
        \/ C22_Kind(i) = "Observation" /\ "valueString" \in DOMAIN C22_Resource(i)
        \/ C22_Kind(i) = "Condition"}

\* the number of imaging texts of the analyses before analysis a
RECURSIVE C22_TextsBefore(_)
C22_TextsBefore(a) ==
    IF a <= 1 THEN 0 ELSE C22_TextsBefore(a - 1) + Len(C22_Analyses[a - 1].findings)

\* C22: each raw record gives exactly one finding, the patient-record
\* findings first in bundle entry order, then the radiology findings in
\* analysis order and finding order; an Observation with valueString gives a
\* SYMPTOM finding of confidence 0.8 and source "anamnesis", a Condition a
\* SIGN finding of confidence 0.9 and source "existing_diagnosis", an imaging
\* text an IMAGING finding of confidence confidence_scores[text] when that
\* key exists and 0.7 otherwise; absent sources give no finding.
C22_OneFindingPerRecord ==
    Returned =>
        LET findings == Result.clinical_findings
            from_bundle == Cardinality(C22_Records)
        IN  /\ Len(findings) = from_bundle + C22_TextsBefore(Len(C22_Analyses) + 1)
            /\ \A i \in C22_Records :
                  LET f == findings[Cardinality({j \in C22_Records : j <= i})]
                  IN  IF C22_Kind(i) = "Observation"
                      THEN /\ f.finding_type = SYMPTOM
                           /\ f.confidence = 80
                           /\ f.source = "anamnesis"
                           /\ f.description = C22_Resource(i)["valueString"]
                      ELSE /\ f.finding_type = SIGN
                           /\ f.confidence = 90
                           /\ f.source = "existing_diagnosis"
            /\ \A a \in 1..Len(C22_Analyses) :
                  \A k \in 1..Len(C22_Analyses[a].findings) :
                      LET f == findings[from_bundle + C22_TextsBefore(a) + k]
                          text == C22_Analyses[a].findings[k]
                          scores == C22_Analyses[a].confidence_scores
                      IN  /\ f.finding_type = IMAGING
                          /\ f.description = text
                          /\ f.confidence = IF text \in DOMAIN scores THEN scores[text] ELSE 70

\* a history finding followed by the findings of two analyses, one imaging
\* text with a score of its own and one with the default
C22_Witness ==
    /\ Returned
    /\ Len(C22_Analyses) = 2
    /\ Len(Result.clinical_findings) >= 4
    /\ Result.clinical_findings[1].finding_type = SYMPTOM
    /\ \E f \in Elems(Result.clinical_findings) :
          f.finding_type = IMAGING /\ f.confidence = 95
    /\ \E f \in Elems(Result.clinical_findings) :
          f.finding_type = IMAGING /\ f.confidence = 70

\* the coding read from the Condition at bundle position i
C23_Coding(i) ==
    Get(Get(C22_Resource(i), "code", EmptyDict), "coding", <<EmptyDict>>)[1]

\* the finding made from the bundle entry at position i
C23_FindingOf(i) == Result.clinical_findings[Cardinality({j \in C22_Records : j <= i})]

\* the finding's two code lists are the lookups of the text in the two tables
C23_BothLookups(f, text) ==
    /\ C11_IsLookup(f.icd10_codes, icd10_codes, C11_Icd10Tokens, text)
    /\ C11_IsLookup(f.snomed_codes, snomed_codes, C11_SnomedTokens, text)

\* the findings made from history entries and from imaging texts have the
\* whole text as description and the two lookups of it as code lists
C23_HistoryAndImaging ==
    /\ \A i \in C22_Records :
          C22_Kind(i) = "Observation" =>
              /\ C23_FindingOf(i).description = C22_Resource(i)["valueString"]
              /\ C23_BothLookups(C23_FindingOf(i), C22_Resource(i)["valueString"])
    /\ \A a \in 1..Len(C22_Analyses) :
          \A k \in 1..Len(C22_Analyses[a].findings) :
              LET f == Result.clinical_findings[
                          Cardinality(C22_Records) + C22_TextsBefore(a) + k]
              IN  /\ f.description = C22_Analyses[a].findings[k]
                  /\ C23_BothLookups(f, C22_Analyses[a].findings[k])

\* C23: for every text source (history entry, existing-diagnosis name,
\* imaging finding text) the finding's description is the whole string and
\* both its icd10_codes and its snomed_codes are the code lookups of that
\* string in the ICD-10 table and in the SNOMED table.
C23_CodesByLookup ==
    Returned =>
        /\ C23_HistoryAndImaging
        /\ \A i \in C22_Records :
              (C22_Kind(i) = "Condition" /\ "display" \in DOMAIN C23_Coding(i)) =>
                  /\ C23_FindingOf(i).description = C23_Coding(i)["display"]
                  /\ C23_BothLookups(C23_FindingOf(i), C23_Coding(i)["display"])

\* C23 amended: for a history entry and an imaging text the description is
\* the whole string and both code lists are its lookups; for an existing
\* diagnosis the description is the display name ("Unknown condition" when
\* there is none), icd10_codes is the one-element list of the code of its
\* coding ("" when there is none) and only snomed_codes is a lookup, of the
\* display name.
C23_CodesByLookupOrCoding ==
    Returned =>
        /\ C23_HistoryAndImaging
        /\ \A i \in C22_Records :
              C22_Kind(i) = "Condition" =>
                  LET f == C23_FindingOf(i)
                      coding == C23_Coding(i)
                  IN  /\ f.description =
                            IF "display" \in DOMAIN coding THEN coding["display"]
                            ELSE <<"U","n","k","n","o","w","n"," ","c","o","n","d","i","t","i","o","n">>
                      /\ f.icd10_codes =
                            << IF "code" \in DOMAIN coding THEN coding["code"] ELSE <<>> >>
                      /\ C11_IsLookup(f.snomed_codes, snomed_codes, C11_SnomedTokens,
                            IF "display" \in DOMAIN coding THEN coding["display"] ELSE <<>>)

\* an existing diagnosis whose finding carries the code of its coding while
\* the lookup of its name gives other codes, next to a history finding
C23_Witness ==
    /\ Returned
    /\ \E i \in C22_Records :
          /\ C22_Kind(i) = "Condition"
          /\ C23_FindingOf(i).description = <<"F","e","v","e","r",","," ","u","n","s","p","e","c","i","f","i","e","d">>
          /\ C23_FindingOf(i).icd10_codes = << <<"R","5","0",".","9">> >>
          /\ ~C11_IsLookup(C23_FindingOf(i).icd10_codes, icd10_codes, C11_Icd10Tokens,
                           <<"F","e","v","e","r",","," ","u","n","s","p","e","c","i","f","i","e","d">>)
    /\ \E i \in C22_Records :
          /\ C22_Kind(i) = "Observation"
          /\ C23_FindingOf(i).icd10_codes # <<>>

\* C26: the urgency and the follow-up depend neither on the rules that fire
\* nor on a rule's "urgency" hint: when the blob holds "fever" and no urgency
\* keyword, the fever rule fires and R50.9, J44.1 and K21.9 are listed, while
\* urgency_level is LOW and the follow-up is required within "2-4 weeks".
C26_FeverIsLow ==
    (/\ Returned
     /\ Occurs(<<"f","e","v","e","r">>, Blob(Result.clinical_findings))
     /\ ~C12_BlobHolds(C12_HighKeywords)
     /\ ~C12_BlobHolds(C12_MediumKeywords))
    => /\ {<<"R","5","0",".","9">>, <<"J","4","4",".","1">>, <<"K","2","1",".","9">>} \subseteq Elems(Codes(Result.differential_diagnoses))
       /\ Result.urgency_level = LOW
       /\ Result.follow_up_required = TRUE
       /\ Result.follow_up_timeline = Some("2-4 weeks")

\* the blob of the returned findings holds "fever" and no urgency keyword
C26_FeverOnly ==
    /\ Returned
    /\ Occurs(<<"f","e","v","e","r">>, Blob(Result.clinical_findings))
    /\ ~C12_BlobHolds(C12_HighKeywords)
    /\ ~C12_BlobHolds(C12_MediumKeywords)

\* C26 amended: when the blob holds "fever" and no urgency keyword, the fever
\* rule fires: R50.9, J44.1 and K21.9 are candidates, and all three are
\* listed when the rules that fire give at most five candidates (with more
\* candidates the cut to five can drop one of them); urgency_level is LOW and
\* the follow-up is required within "2-4 weeks", whatever the "urgency" hints
\* of the rules that fire.
C26_FeverIsLowCandidates ==
    C26_FeverOnly =>
        LET candidates == Codes(candidate_diagnoses(Result.clinical_findings))
            listed == Codes(Result.differential_diagnoses)
        IN  /\ {<<"R","5","0",".","9">>, <<"J","4","4",".","1">>, <<"K","2","1",".","9">>} \subseteq Elems(candidates)
            /\ Len(candidates) <= 5 =>
                  {<<"R","5","0",".","9">>, <<"J","4","4",".","1">>, <<"K","2","1",".","9">>} \subseteq Elems(listed)
            /\ Len(listed) = (IF Len(candidates) < 5 THEN Len(candidates) ELSE 5)
            /\ Result.urgency_level = LOW
            /\ Result.follow_up_required = TRUE
            /\ Result.follow_up_timeline = Some("2-4 weeks")

\* the fever rule (hint "medium") and the chest_pain rule (hint "high") fired
\* on a blob without urgency keyword: the urgency is LOW and the cut to five
\* dropped K21.9
C26_Witness ==
    /\ C26_FeverOnly
    /\ Occurs(<<"c","h","e","s","t"," ","d","i","s","c","o","m","f","o","r","t">>, Blob(Result.clinical_findings))
    /\ <<"K","2","1",".","9">> \notin Elems(Codes(Result.differential_diagnoses))
    /\ Result.urgency_level = LOW
    /\ Result.follow_up_timeline = Some("2-4 weeks")

\* radiology_analysis is a result of ClinicalAIEngine.analyze_radiology_images
C28_FromAIEngine ==
    /\ radiology_analysis # None
    /\ radiology_analysis[1] # <<>>
    /\ \A a \in Elems(radiology_analysis[1]) :
          \E image_set \in RadiologyImages : a = analyze_image_set(image_set)

\* the score each simulated analysis gives to each of its findings: the
\* entries of confidence_scores, in the order of the findings they describe
C28_OwnScore ==
    (<<"B","i","l","a","t","e","r","a","l"," ","l","u","n","g"," ","f","i","e","l","d","s"," ","a","p","p","e","a","r"," ","c","l","e","a","r">> :> 85)
    @@ (<<"C","a","r","d","i","a","c"," ","s","i","l","h","o","u","e","t","t","e"," ","w","i","t","h","i","n"," ","n","o","r","m","a","l"," ","l","i","m","i","t","s">> :> 90)
    @@ (<<"N","o"," ","a","c","u","t","e"," ","p","u","l","m","o","n","a","r","y"," ","a","b","n","o","r","m","a","l","i","t","i","e","s"," ","d","e","t","e","c","t","e","d">> :> 88)
    @@ (<<"N","o"," ","e","v","i","d","e","n","c","e"," ","o","f"," ","a","c","u","t","e"," ","i","n","t","r","a","c","r","a","n","i","a","l"," ","p","a","t","h","o","l","o","g","y">> :> 92)
    @@ (<<"V","e","n","t","r","i","c","u","l","a","r"," ","s","y","s","t","e","m"," ","a","p","p","e","a","r","s"," ","n","o","r","m","a","l">> :> 88)
    @@ (<<"N","o"," ","m","a","s","s"," ","l","e","s","i","o","n","s"," ","i","d","e","n","t","i","f","i","e","d">> :> 90)
    @@ (<<"N","o","r","m","a","l"," ","b","r","a","i","n"," ","p","a","r","e","n","c","h","y","m","a"," ","s","i","g","n","a","l"," ","i","n","t","e","n","s","i","t","y">> :> 89)
    @@ (<<"N","o"," ","e","v","i","d","e","n","c","e"," ","o","f"," ","a","c","u","t","e"," ","s","t","r","o","k","e">> :> 94)
    @@ (<<"W","h","i","t","e"," ","m","a","t","t","e","r"," ","c","h","a","n","g","e","s"," ","c","o","n","s","i","s","t","e","n","t"," ","w","i","t","h"," ","a","g","e">> :> 82)
    @@ (<<"I","m","a","g","e","s"," ","t","e","c","h","n","i","c","a","l","l","y"," ","a","d","e","q","u","a","t","e"," ","f","o","r"," ","i","n","t","e","r","p","r","e","t","a","t","i","o","n">> :> 85)
    @@ (<<"N","o"," ","o","b","v","i","o","u","s"," ","a","b","n","o","r","m","a","l","i","t","i","e","s"," ","d","e","t","e","c","t","e","d">> :> 75)
    @@ (<<"C","l","i","n","i","c","a","l"," ","c","o","r","r","e","l","a","t","i","o","n"," ","r","e","c","o","m","m","e","n","d","e","d">> :> 90)

\* C28: when radiology_analysis comes from
\* ClinicalAIEngine.analyze_radiology_images, every imaging finding carries
\* the analysis's own score for that finding, the 0.7 default being used only
\* for a finding the analysis gave no score to.
C28_ImagingCarriesOwnScore ==
    (Returned /\ C28_FromAIEngine) =>
        \A f \in Elems(Result.clinical_findings) :
            f.finding_type = IMAGING =>
                f.confidence = IF f.description \in DOMAIN C28_OwnScore
                               THEN C28_OwnScore[f.description] ELSE 70

\* the bundle of every sample PatientData
C27_BundleOf == [sample \in PatientDataSamples |-> convert_to_fhir(sample)]

\* the PatientData the bundle handed to the call was converted from
C27_Converted(sample) == patient_data = C27_BundleOf[sample]

\* the findings extracted from the bundle: the returned findings that are no
\* imaging findings
C27_BundleFindings ==
    LET from_bundle(f) == f.finding_type # IMAGING
    IN  SelectSeq(Result.clinical_findings, from_bundle)

\* C27: the bundle FHIRProcessor.convert_to_fhir makes of a PatientData
\* yields exactly (1 if the anamnesis is not empty, else 0) + len(diagnoses)
\* findings: the SYMPTOM finding of the anamnesis first, then one SIGN
\* finding per diagnosis in diagnosis order, with the diagnosis name as
\* description and [diagnosis code] as icd10_codes; the Patient, ImagingStudy
\* and DiagnosticReport entries yield no finding.
C27_FhirThenExtract ==
    \A sample \in (IF pc \in {"raised", "done"} /\ "type" \in DOMAIN patient_data
                   THEN PatientDataSamples ELSE {}) :
        C27_Converted(sample) =>
            /\ pc # "raised"
            /\ Returned =>
                  LET findings == C27_BundleFindings
                      history == IF Len(sample.anamnesis) > 0 THEN 1 ELSE 0
                  IN  /\ Len(findings) = history + Len(sample.diagnoses)
                      /\ history = 1 =>
                            /\ findings[1].finding_type = SYMPTOM
                            /\ findings[1].description = sample.anamnesis
                      /\ \A i \in 1..Len(sample.diagnoses) :
                            /\ findings[history + i].finding_type = SIGN
                            /\ findings[history + i].description = sample.diagnoses[i].name
                            /\ findings[history + i].icd10_codes
                                  = << sample.diagnoses[i].code >>

\* a PatientData with an anamnesis, two different diagnoses and a radiology
\* image: three findings come from a bundle of six entries
C27_Witness ==
    /\ Returned
    /\ \E sample \in PatientDataSamples :
          /\ C27_Converted(sample)
          /\ Len(sample.anamnesis) > 0
          /\ Len(sample.diagnoses) = 2
          /\ sample.diagnoses[1] # sample.diagnoses[2]
          /\ sample.radiology_images # <<>>
          /\ Len(patient_data["entry"]) = 6
          /\ Len(C27_BundleFindings) = 3

\* the text p occurs in the text s
C25_Contains(p, s) ==
    \E i \in 0..(Len(s) - Len(p)) : \A k \in 1..Len(p) : s[i + k] = p[k]

\* the positions of the table entries whose code or name contains the query,
\* letter case ignored
C25_Matching(table, query) ==
    {i \in 1..Len(table) :
        \/ C25_Contains(lower(query), lower(table[i].code))
        \/ C25_Contains(lower(query), lower(table[i].name))}

\* the k-th smallest of a set of positions
C25_Nth(positions, k) ==
    CHOOSE i \in positions : Cardinality({j \in positions : j <= i}) = k

\* the list is the first 10 matching entries of the table, in table order,
\* each with the code, name and category of its entry and nothing else
C25_IsSearchResult(results, table, query) ==
    LET positions == C25_Matching(table, query)
    IN  /\ Len(results) = Min(Cardinality(positions), 10)
        /\ \A k \in 1..Len(results) :
              LET info == table[C25_Nth(positions, k)]
              IN  /\ DOMAIN results[k] = {"code", "name", "category"}
                  /\ results[k].code = info.code
                  /\ results[k].name = info.name
                  /\ results[k].category = info.category

\* C25: search_icd10_codes(query) and search_snomed_codes(query) return, in
\* table order and limited to the first 10, exactly the entries whose code or
\* name contains the query case-insensitively, each as {code, name, category}
\* copied from the table; a query matching nothing returns an empty list and
\* no search raises.
C25_SearchReturnsMatches ==
    \A c \in Callers :
        /\ calls[c].method \in {"search_icd10_codes", "search_snomed_codes"}
              => calls[c].pc # "raised"
        /\ calls[c].pc = "done" /\ calls[c].method = "search_icd10_codes"
              => /\ calls[c].returned # None
                 /\ C25_IsSearchResult(calls[c].returned[1], load_icd10_codes, calls[c].query)
        /\ calls[c].pc = "done" /\ calls[c].method = "search_snomed_codes"
              => /\ calls[c].returned # None
                 /\ C25_IsSearchResult(calls[c].returned[1], load_snomed_codes, calls[c].query)

\* the codes of a list of search results
C25_Codes(results) == [k \in 1..Len(results) |-> results[k].code]

\* one caller found E11.9 for "Diabetes" in ICD-10, the other 22253000 and
\* 225358003 for "PAIN" in SNOMED
C25_Witness ==
    /\ calls["caller_1"].pc = "done"
    /\ calls["caller_1"].method = "search_icd10_codes"
    /\ calls["caller_1"].query = <<"D","i","a","b","e","t","e","s">>
    /\ C25_Codes(calls["caller_1"].returned[1]) = << <<"E","1","1",".","9">> >>
    /\ calls["caller_2"].pc = "done"
    /\ calls["caller_2"].method = "search_snomed_codes"
    /\ calls["caller_2"].query = <<"P","A","I","N">>
    /\ C25_Codes(calls["caller_2"].returned[1]) = << <<"2","2","2","5","3","0","0","0">>, <<"2","2","5","3","5","8","0","0","3">> >>

\* a search matched nothing and returned the empty list
C25_WitnessEmpty ==
    \E c \in Callers :
        /\ calls[c].pc = "done"
        /\ calls[c].query = <<"z","z","z">>
        /\ calls[c].returned = Some(<<>>)

\* no step of any call writes the engine's tables or the caller's arguments
C24_NothingWritten ==
    /\ self' = self
    /\ patient_data' = patient_data
    /\ radiology_analysis' = radiology_analysis

\* the call of caller c ended as the same call does when no other call runs
\* on the engine: a search returns the search of the tables as loaded, and
\* generate_assessment returns the result, or raises the exception, of one
\* uninterrupted call on the arguments, made on the day the call read the clock
C24_AsAlone(c) ==
    LET call == calls[c]
        alone == extract_clinical_findings(patient_data)
    IN  /\ call.pc = "raised" =>
              /\ call.method = "generate_assessment"
              /\ alone.raised # None
              /\ call.exception = alone.raised
        /\ call.pc = "done" /\ call.method = "generate_assessment" =>
              /\ alone.raised = None
              /\ \E today \in Todays :
                    /\ call.now \in {None, Some(today)}
                    /\ call.returned = Some(C19_CallAt(today))
        /\ call.pc = "done" /\ call.method = "search_icd10_codes" =>
              call.returned = Some(search_icd10_codes(load_icd10_codes, call.query))
        /\ call.pc = "done" /\ call.method = "search_snomed_codes" =>
              call.returned = Some(search_snomed_codes(load_snomed_codes, call.query))

\* the engine holds the three tables as __init__ loaded them
C24_TablesAsLoaded ==
    /\ self.icd10_codes = load_icd10_codes
    /\ self.snomed_codes = load_snomed_codes
    /\ self.diagnostic_rules = load_diagnostic_rules

\* C24: generate_assessment, search_icd10_codes and search_snomed_codes leave
\* the engine's icd10_codes, snomed_codes and diagnostic_rules tables, and the
\* caller's patient_data and radiology_analysis, unchanged; under any
\* interleaving of concurrent calls on one engine each call returns the
\* result it returns when run alone.
C24_CallsDoNotInterfere ==
    /\ [][C24_NothingWritten]_vars
    /\ [](C24_TablesAsLoaded /\ \A c \in Callers : C24_AsAlone(c))

\* one caller's generate_assessment has returned a result with a diagnosis
\* while the other caller, whose search ran between the steps of that call,
\* holds its search result
C24_Witness ==
    /\ calls["caller_1"].pc = "done"
    /\ calls["caller_1"].method = "generate_assessment"
    /\ calls["caller_1"].returned[1].differential_diagnoses # <<>>
    /\ calls["caller_2"].pc = "done"
    /\ calls["caller_2"].method = "search_icd10_codes"
    /\ calls["caller_2"].returned[1] # <<>>

\* two generate_assessment calls are in progress at different positions
C24_WitnessInterleaved ==
    /\ calls["caller_1"].pc = "assess"
    /\ calls["caller_2"].pc = "generate_differential_diagnoses"

\* the patient data, the patient folder and the JSON path of the module
\* request_create_json belong to one patient: the folder and the path are the
\* ones save_patient_data makes for the patient of patient_data
C29_SamePatient ==
    /\ app.patient_data # None
    /\ "patient" \in DOMAIN app.patient_data[1]
    /\ ~replace_raises(app.patient_data[1])
    /\ app.patient_folder = Some(patient_folder_of(app.patient_data[1]))
    /\ request_create_json.path = json_path_of(app.patient_data[1])

\* a fetch that has failed and was the only one started so far
C29_FirstFetchFailed ==
    /\ clicks = 1
    /\ Len(threads) = 1
    /\ threads[1].pc = "except"

C29_RaceOfTwoFetches ==
    /\ after # <<>> /\ Head(after) = "build_workflow"
    /\ app.patient_data # None
    /\ "patient" \in DOMAIN app.patient_data[1]
    /\ app.patient_data[1]["patient"]["id"] = 2
    /\ app.patient_folder = Some(<<"r","e","c","e","i","v","e","d","_","d","a","t","a","/","p","a","t","i","e","n","t","_","i","d","_","1">>)
    /\ request_create_json.path = <<"r","e","c","e","i","v","e","d","_","d","a","t","a","/","p","a","t","i","e","n","t","_","i","d","_","1","/","A","d","a","_","D","e","_","V","r","i","e","s","_","i","d","_","1",".","j","s","o","n">>

\* the first fetch failed inside save_patient_data after it had assigned
\* patient_data
C29_FailedFetchWrote ==
    /\ C29_FirstFetchFailed
    /\ threads[1].raised_in = "save_patient_data"
    /\ app.patient_data # None

C30_StaleSelection ==
    /\ app.selected_xray = Some(<<"c","h","e","s","t","_","1",".","p","n","g">>)
    /\ xray_names(app.xrays) = { <<"L","A","T","E","R","A","L","_","2",".","P","N","G">> }
    /\ app.patient_folder = Some(<<"r","e","c","e","i","v","e","d","_","d","a","t","a","/","p","a","t","i","e","n","t","_","i","d","_","2">>)
    /\ shown # None
    /\ shown[1].box = "showerror"
    /\ shown[1].text = "Failed to generate report"
    /\ shown[1].selected_xray = <<"c","h","e","s","t","_","1",".","p","n","g">>
    /\ shown[1].patient_data["patient"]["id"] = 2
====
